---- MODULE Spec2Model ----
(***************************************************************************)
(* Model of keeper's local encrypted secret engine: the LocalProvider of   *)
(* package local (GetSecret, SetSecret, DeleteSecret, version walk,        *)
(* rollback, metadata update, master-key rotation), the keychain it uses   *)
(* (named keys in the platform keyring, AES-GCM seal/open), and the        *)
(* plain-JSON LocalProvider that shares the secrets directory.             *)
(***************************************************************************)
EXTENDS Naturals, Integers, Sequences, FiniteSets, TLC

VARIABLES files,   \* the secrets directory: path -> <<>> (no file) or <<blob>>
          ring,    \* the platform keyring: key name -> <<>> (absent) or <<key bytes>>
          nkeys,   \* how many random keys rand.Reader has produced so far
          clock,   \* the last reading time.Now() returned
          mu,      \* LocalProvider.mu: "" (free) or the thread holding Lock()
          th,      \* per thread: the running call, its locals and its result
          left,    \* per thread: the calls it may still start (bounds a run)
          nsets,   \* history, per key: SetSecret calls that returned success
                   \* since the key was last absent
          backend, \* the provider in use: "local", "gcp", "azure", "aws", "vault"
          remote,  \* the remote backend's store: the secrets and, for Vault,
                   \* the rotation side records
          supplied,\* history, per key: the policy the caller last gave to
                   \* SetRotationPolicy with success
          schemas, \* the schemas directory: schema name -> <<>> (no file) or
                   \* <<schema>>
          backup,  \* the plain provider's backups: its backupDir field and the
                   \* backup directory, file name -> <<>> (no file) or <<text>>
          target   \* the secrets directory of a second provider, the target
                   \* of a share: path -> <<>> (no file) or <<blob>>

vars == <<files, ring, nkeys, clock, mu, th, left, nsets, backend, remote, supplied,
         schemas, backup, target>>
cloudvars == <<backend, remote, supplied, backup, target>>
localvars == <<files, ring, nkeys, mu, nsets, schemas, backup, target>>
shared == <<files, ring, nkeys, clock, mu, nsets>>

---------------------------------------------------------------------------
(* Bounds of the model. *)

MaxCalls == 3      \* state-changing calls one thread makes in a run
MaxClock == 1      \* the clock stops advancing here
MaxConcCalls == 2  \* calls one thread makes in an interleaved run

Threads == {"t1", "t2"}
Keys == {"a", "b"}                 \* secret keys given by callers
JsonNames == {"a.json", "b.json"}  \* file names written by the plain-JSON provider
Paths == Keys \cup JsonNames
Values == {"", "v1", "v2"}         \* "" is the value Validate rejects
Nonces == {"n1"}                   \* outcomes of the random 12-byte nonce
KeyNames == {"master", "master_new"}
VersionArgs == 0 .. (MaxCalls + 1)

None == <<>>
Some(x) == <<x>>

---------------------------------------------------------------------------
(* map[string]string: a nil map and an empty map are different Go values   *)
(* that read alike.                                                        *)

NilMap == [nil |-> TRUE, kv |-> {}]
MkMap(pairs) == [nil |-> FALSE, kv |-> pairs]
EnvProd == MkMap({<<"env", "prod">>})
Metas == {NilMap, EnvProd}

(* time.Time: the wall reading, and whether a monotonic reading is attached. *)
Now(c) == [wall |-> c, mono |-> TRUE]

\* What time.Now() can return after the reading c: the clock never goes back.
Later(c) == c .. MaxClock

---------------------------------------------------------------------------
(* providers.Secret and its JSON form.                                     *)

\* Secret.Validate: rejects an empty value, replaces a nil map by an empty one.
Validate(s) ==
    IF s.Value = ""
    THEN [err |-> "secret value cannot be empty", secret |-> s]
    ELSE [err |-> "",
          secret |-> [s EXCEPT !.Metadata = IF s.Metadata.nil THEN MkMap({}) ELSE @,
                               !.Version = IF s.Version = 0 THEN 1 ELSE @]]

\* json.Marshal of a map: null for a nil map, an object otherwise.
MarshalMap(m) == IF m.nil THEN [t |-> "null"] ELSE [t |-> "object", kv |-> m.kv]

UnmarshalMap(j) == IF j.t = "null" THEN NilMap ELSE MkMap(j.kv)

\* json.Marshal of a time.Time: the RFC 3339 text of the wall reading only.
MarshalTime(t) == t.wall

UnmarshalTime(w) == [wall |-> w, mono |-> FALSE]

\* json.Marshal of a Secret: previous_version is left out when PrevVersion is nil.
RECURSIVE Marshal(_)
Marshal(s) ==
    LET base == [value |-> s.Value,
                 metadata |-> MarshalMap(s.Metadata),
                 created |-> MarshalTime(s.Created),
                 updated |-> MarshalTime(s.Updated),
                 version |-> s.Version]
    IN IF s.PrevVersion = None
       THEN base
       ELSE [value |-> base.value, metadata |-> base.metadata,
             created |-> base.created, updated |-> base.updated,
             version |-> base.version,
             previous_version |-> Marshal(s.PrevVersion[1])]

RECURSIVE Unmarshal(_)
Unmarshal(j) ==
    [Value |-> j.value,
     Metadata |-> UnmarshalMap(j.metadata),
     Created |-> UnmarshalTime(j.created),
     Updated |-> UnmarshalTime(j.updated),
     Version |-> j.version,
     PrevVersion |-> IF "previous_version" \in DOMAIN j
                     THEN Some(Unmarshal(j.previous_version))
                     ELSE None]

---------------------------------------------------------------------------
(* KeychainImpl over the platform keyring.                                 *)

\* keyring.Get
GetKey(rg, name) ==
    IF rg[name] = None
    THEN [err |-> "failed to get key from keychain", key |-> 0]
    ELSE [err |-> "", key |-> rg[name][1]]

\* KeyExists
KeyExists(rg, name) == rg[name] # None

\* GenerateKey: fresh random bytes stored under name, replacing what was there.
GenerateKey(rg, name, fresh) == [rg EXCEPT ![name] = Some(fresh)]

\* DeleteKey: keyring.Delete fails when the name is absent.
DeleteKey(rg, name) ==
    IF rg[name] = None
    THEN [err |-> "failed to delete key from keychain", ring |-> rg]
    ELSE [err |-> "", ring |-> [rg EXCEPT ![name] = None]]

\* Encrypt: nonce || gcm.Seal under the named key.
Encrypt(rg, keyName, data, nonce) ==
    LET k == GetKey(rg, keyName)
    IN IF k.err # ""
       THEN [err |-> k.err, blob |-> None]
       ELSE [err |-> "",
             blob |-> Some([kind |-> "aead", nonce |-> nonce,
                            key |-> k.key, sealed |-> data])]

\* Decrypt: gcm.Open authenticates only under the key that sealed the blob;
\* bytes that are no nonce || ciphertext fail the same way.
Decrypt(rg, keyName, blob) ==
    LET k == GetKey(rg, keyName)
    IN IF k.err # ""
       THEN [err |-> k.err, data |-> None]
       ELSE IF blob.kind # "aead" \/ blob.key # k.key
       THEN [err |-> "failed to decrypt", data |-> None]
       ELSE [err |-> "", data |-> Some(blob.sealed)]

---------------------------------------------------------------------------
(* LocalProvider (package local, encrypted): the read side.                *)

\* The secrets directory as a tree.  A path is relative to
\* <baseDir>/secrets and "." is that directory itself; an entry is <<>>
\* (nothing there), <<blob>> (a file) or <<DirEntry>> (a directory).  A store
\* without an entry for "." has the directory New created.
DirEntry == [kind |-> "dir"]
IsDir(e) == e # None /\ e[1].kind = "dir"
IsFile(e) == e # None /\ e[1].kind # "dir"

\* filepath.Dir, relative to the secrets directory; "/" is <baseDir>.
Parent(path) ==
    CASE path = "." -> "/"
      [] path = "a/b" -> "a"
      [] OTHER -> "."

\* The entry the operating system finds at path, or why it finds none:
\* ENOENT when a component is missing, ENOTDIR when a component that must be
\* a directory is a file.  <baseDir> exists.
RECURSIVE Resolve(_, _)
Resolve(fs, path) ==
    IF path = "/" THEN [errno |-> "", e |-> Some(DirEntry)]
    ELSE IF path \notin DOMAIN fs
    THEN [errno |-> IF path = "." THEN "" ELSE "ENOENT",
          e |-> IF path = "." THEN Some(DirEntry) ELSE None]
    ELSE LET par == Resolve(fs, Parent(path))
         IN IF par.errno # "" THEN [errno |-> par.errno, e |-> None]
            ELSE IF ~IsDir(par.e) THEN [errno |-> "ENOTDIR", e |-> None]
            ELSE IF fs[path] = None THEN [errno |-> "ENOENT", e |-> None]
            ELSE [errno |-> "", e |-> fs[path]]

\* os.ReadFile
ReadFile(fs, path) ==
    LET r == Resolve(fs, path)
    IN IF r.errno # "" THEN [errno |-> r.errno, data |-> None]
       ELSE IF IsDir(r.e) THEN [errno |-> "EISDIR", data |-> None]
       ELSE [errno |-> "", data |-> r.e]

\* getSecretPath: filepath.Join(p.baseDir, "secrets", key).  Join cleans the
\* result: an empty key gives the secrets directory, and "a/../b" gives b.
getSecretPath(key) ==
    CASE key = "" -> "."
      [] key = "a/../b" -> "b"
      [] OTHER -> key

\* GetSecret: read the file, decrypt under "master", unmarshal.  Only a
\* missing file is reported as not found.
GetSecret(fs, rg, key) ==
    LET f == ReadFile(fs, getSecretPath(key))
    IN IF f.errno = "ENOENT"
       THEN [err |-> "secret not found", secret |-> None]
       ELSE IF f.errno # ""
       THEN [err |-> "failed to read secret file", secret |-> None]
       ELSE LET d == Decrypt(rg, "master", f.data[1])
            IN IF d.err # ""
               THEN [err |-> "failed to decrypt secret", secret |-> None]
               ELSE [err |-> "", secret |-> Some(Unmarshal(d.data[1]))]

\* The loop of GetSecretVersion: walk PrevVersion until the version matches.
RECURSIVE FindVersion(_, _)
FindVersion(cur, version) ==
    IF cur = None THEN None
    ELSE IF cur[1].Version = version THEN cur
    ELSE FindVersion(cur[1].PrevVersion, version)

\* A walk that falls back to the current record when no version matches.
GetSecretVersionOrCurrent(fs, rg, key, version) ==
    LET r == GetSecret(fs, rg, key)
    IN IF r.err # "" THEN r
       ELSE LET f == FindVersion(r.secret, version)
            IN IF f = None THEN r ELSE [err |-> "", secret |-> f]

GetSecretVersion(fs, rg, key, version) ==
    LET r == GetSecret(fs, rg, key)
    IN IF r.err # "" THEN r
       ELSE LET f == FindVersion(r.secret, version)
            IN IF f = None
               THEN [err |-> "version not found", secret |-> None]
               ELSE [err |-> "", secret |-> f]

\* The loop of ListSecretVersions: the versions met along the chain.
RECURSIVE ChainVersions(_)
ChainVersions(cur) ==
    IF cur = None THEN <<>>
    ELSE <<cur[1].Version>> \o ChainVersions(cur[1].PrevVersion)

\* sort.Sort(sort.Reverse(sort.IntSlice(versions)))
RECURSIVE InsertDesc(_, _)
InsertDesc(x, s) ==
    IF s = <<>> THEN <<x>>
    ELSE IF x >= Head(s) THEN <<x>> \o s
    ELSE <<Head(s)>> \o InsertDesc(x, Tail(s))

RECURSIVE SortDesc(_)
SortDesc(s) == IF s = <<>> THEN <<>> ELSE InsertDesc(Head(s), SortDesc(Tail(s)))

ListSecretVersions(fs, rg, key) ==
    LET r == GetSecret(fs, rg, key)
    IN IF r.err # "" THEN [err |-> r.err, versions |-> <<>>]
       ELSE [err |-> "", versions |-> SortDesc(ChainVersions(r.secret))]

\* filepath.Walk visits a directory's entries in lexical order, and the
\* entries of a subdirectory right after it.
WalkOrder == <<"a", "a/b", "a.json", "b", "b.json">>

\* The characters of the path and prefix strings of the model.
Chars(str) ==
    CASE str = "" -> <<>>
      [] str = "a" -> <<"a">>
      [] str = "b" -> <<"b">>
      [] str = "x" -> <<"x">>
      [] str = "a/" -> <<"a", "/">>
      [] str = "a/b" -> <<"a", "/", "b">>
      [] str = "a.json" -> <<"a", ".", "j", "s", "o", "n">>
      [] str = "b.json" -> <<"b", ".", "j", "s", "o", "n">>
      [] OTHER -> <<"/", "s", "e", "c", "r", "e", "t", "s">>

\* strings.HasPrefix
HasPrefix(path, prefix) ==
    /\ Len(Chars(prefix)) <= Len(Chars(path))
    /\ SubSeq(Chars(path), 1, Len(Chars(prefix))) = Chars(prefix)

\* ListSecrets over an existing secrets directory: every file under it whose
\* path has the prefix; directories are walked, not listed.
ListSecrets(fs, prefix) ==
    LET keep(path) == /\ path \in DOMAIN fs
                      /\ IsFile(Resolve(fs, path).e)
                      /\ HasPrefix(path, prefix)
    IN SelectSeq(WalkOrder, keep)

---------------------------------------------------------------------------
(* Threads: a call in progress, its locals, its result.                    *)

Idle ==
    [pc |-> "idle", op |-> "", key |-> "", value |-> "", meta |-> NilMap,
     ver |-> 0, prev |-> None, enc |-> None,
     keys |-> <<>>, sdata |-> <<>>, warn |-> {}, res |-> "", out |-> None,
     now1 |-> 0, pre |-> None, invalid |-> <<>>, schema |-> ""]

\* A thread between two calls; after a return it still shows the result.
Free(p) == th[p].pc \in {"idle", "ret", "recovered"}

\* The call starts: its arguments, and the store as it was at that moment.
Call(op, pc, key, value, meta, ver) ==
    [Idle EXCEPT !.pc = pc, !.op = op, !.key = key, !.value = value,
                 !.meta = meta, !.ver = ver,
                 !.pre = Some([files |-> files, ring |-> ring, remote |-> remote])]

\* The call returns err ("" is success).
Ret(r, err) == [r EXCEPT !.pc = "ret", !.res = err]

TypeOK ==
    /\ DOMAIN files = Paths
    /\ DOMAIN ring = KeyNames
    /\ nkeys \in Nat \ {0}
    /\ clock \in 0 .. MaxClock
    /\ mu \in Threads \cup {""}
    /\ DOMAIN th = Threads

\* The schemas directory Initialize creates: no schema file.
SchemaNames == {"svc"}
NoSchemas == [n \in SchemaNames |-> None]

\* A remote backend that stores nothing.
NoRemote == [secrets |-> [k \in Keys |-> None], rotation |-> [k \in Keys |-> None]]

\* The plain provider as New returns it: backupDir is "" and nothing has been
\* backed up.  A backup directory holds the files of Backup, one name.json per
\* secret, and whatever else its owner keeps there.
BackupNames == JsonNames \cup {"notes.txt"}
NoBackup == [dir |-> "", files |-> [n \in BackupNames |-> None]]

\* A second provider that stores nothing.
NoTarget == [p \in Paths |-> None]

\* The state New leaves: an empty secrets directory and a generated master key.
Fresh ==
    /\ files = [p \in Paths |-> None]
    /\ ring = [n \in KeyNames |-> IF n = "master" THEN Some(1) ELSE None]
    /\ nkeys = 1
    /\ clock = 0
    /\ mu = ""
    /\ th = [p \in Threads |-> Idle]
    /\ nsets = [k \in Keys |-> 0]
    /\ backend = "local"
    /\ remote = NoRemote
    /\ supplied = [k \in Keys |-> None]
    /\ schemas = NoSchemas
    /\ backup = NoBackup
    /\ target = NoTarget

\* Thread p starts a call: one less to go.
Start(p) == left[p] > 0 /\ left' = [left EXCEPT ![p] = @ - 1]

---------------------------------------------------------------------------
(* SetSecret, lines 237-296.                                               *)

\* existing, err := p.GetSecret(ctx, key): under RLock; any error means "no
\* previous version".
AfterGet(r) ==
    LET g == GetSecret(files, ring, r.key)
    IN [r EXCEPT !.pc = "set_build",
                 !.prev = IF g.err = "" THEN g.secret ELSE None]

\* A caller's SetSecret(key, value, metadata), up to the return of GetSecret.
SetSecretOf(p, ks, vs, ms) ==
    /\ Free(p)
    /\ Start(p)
    /\ UNCHANGED <<cloudvars, schemas>>
    /\ mu = ""
    /\ \E k \in ks, v \in vs, m \in ms :
          th' = [th EXCEPT ![p] = AfterGet(Call("SetSecret", "set_get", k, v, m, 0))]
    /\ UNCHANGED shared

CallSetSecret(p) == SetSecretOf(p, Keys, Values, Metas)

\* The same step inside RollbackSecret and UpdateMetadata.
SetSecretGet(p) ==
    /\ th[p].pc = "set_get"
    /\ UNCHANGED <<left, cloudvars, schemas>>
    /\ mu = ""
    /\ th' = [th EXCEPT ![p] = AfterGet(@)]
    /\ UNCHANGED shared

\* Variants of the record SetSecret builds, each dropping one thing it does:
\* the version increment, the carried-over Created, the link to the previous
\* record.
NewSecretSameVersion(prev, value, meta, t1, t2) ==
    IF prev = None
    THEN [Value |-> value, Metadata |-> meta, Created |-> Now(t1),
          Updated |-> Now(t2), Version |-> 1, PrevVersion |-> None]
    ELSE [Value |-> value, Metadata |-> meta, Created |-> prev[1].Created,
          Updated |-> Now(t2), Version |-> prev[1].Version,
          PrevVersion |-> prev]

NewSecretFreshCreated(prev, value, meta, t1, t2) ==
    IF prev = None
    THEN [Value |-> value, Metadata |-> meta, Created |-> Now(t1),
          Updated |-> Now(t2), Version |-> 1, PrevVersion |-> None]
    ELSE [Value |-> value, Metadata |-> meta, Created |-> Now(t1),
          Updated |-> Now(t2), Version |-> prev[1].Version + 1,
          PrevVersion |-> prev]

NewSecretReplacing(prev, value, meta, t1, t2) ==
    IF prev = None
    THEN [Value |-> value, Metadata |-> meta, Created |-> Now(t1),
          Updated |-> Now(t2), Version |-> 1, PrevVersion |-> None]
    ELSE [Value |-> value, Metadata |-> meta, Created |-> prev[1].Created,
          Updated |-> Now(t2), Version |-> prev[1].Version + 1,
          PrevVersion |-> prev[1].PrevVersion]

\* The record built from the arguments, the previous version and two readings
\* of the clock (Created: time.Now(), Updated: time.Now()).
NewSecret(prev, value, meta, t1, t2) ==
    IF prev = None
    THEN [Value |-> value, Metadata |-> meta, Created |-> Now(t1),
          Updated |-> Now(t2), Version |-> 1, PrevVersion |-> None]
    ELSE [Value |-> value, Metadata |-> meta, Created |-> prev[1].Created,
          Updated |-> Now(t2), Version |-> prev[1].Version + 1,
          PrevVersion |-> prev]

\* Build, Validate, json.Marshal, Encrypt under "master" (outside the lock).
\* t1 and t2 are the readings of the two time.Now() calls.
SetSecretBuild(p) ==
    /\ th[p].pc = "set_build"
    /\ UNCHANGED <<left, cloudvars, schemas>>
    /\ \E t1 \in Later(clock), n \in Nonces : \E t2 \in Later(t1) :
          LET s == NewSecret(th[p].prev, th[p].value, th[p].meta, t1, t2)
              v == Validate(s)
              e == Encrypt(ring, "master", Marshal(v.secret), n)
          IN /\ clock' = t2
             /\ th' = [th EXCEPT ![p] =
                         IF v.err # "" THEN Ret(@, "invalid secret")
                         ELSE IF e.err # "" THEN Ret(@, "failed to encrypt secret")
                         ELSE [@ EXCEPT !.pc = "set_write", !.enc = e.blob,
                                        !.now1 = t1]]
    /\ UNCHANGED <<files, ring, nkeys, mu, nsets>>

\* p.mu.Lock(); MkdirAll; os.WriteFile; unlock on return.
SetSecretWrite(p) ==
    /\ th[p].pc = "set_write"
    /\ UNCHANGED <<left, cloudvars, schemas>>
    /\ mu = ""
    /\ files' = [files EXCEPT ![getSecretPath(th[p].key)] = th[p].enc]
    /\ th' = [th EXCEPT ![p] = Ret(@, "")]
    /\ nsets' = [nsets EXCEPT ![th[p].key] = @ + 1]
    /\ UNCHANGED <<ring, nkeys, clock, mu>>

---------------------------------------------------------------------------
(* GetSecretVersion, RollbackSecret, UpdateMetadata, DeleteSecret.         *)

\* oldVersion, err := p.GetSecretVersion(...); then SetSecret with its value
\* and metadata.
CallRollbackSecret(p) ==
    /\ Free(p)
    /\ Start(p)
    /\ UNCHANGED <<cloudvars, schemas>>
    /\ mu = ""
    /\ \E k \in Keys, n \in VersionArgs :
          LET r == GetSecretVersion(files, ring, k, n)
              c == Call("RollbackSecret", "rb_getver", k, "", NilMap, n)
          IN th' = [th EXCEPT ![p] =
                         IF r.err # "" THEN Ret(c, r.err)
                         ELSE [c EXCEPT !.pc = "set_get",
                                        !.value = r.secret[1].Value,
                                        !.meta = r.secret[1].Metadata]]
    /\ UNCHANGED shared

\* secret, err := p.GetSecret(...); then SetSecret with its value and the new
\* metadata.
CallUpdateMetadata(p) ==
    /\ Free(p)
    /\ Start(p)
    /\ UNCHANGED <<cloudvars, schemas>>
    /\ mu = ""
    /\ \E k \in Keys, m \in Metas :
          LET r == GetSecret(files, ring, k)
              c == Call("UpdateMetadata", "um_get", k, "", m, 0)
          IN th' = [th EXCEPT ![p] =
                         IF r.err # "" THEN Ret(c, r.err)
                         ELSE [c EXCEPT !.pc = "set_get", !.value = r.secret[1].Value]]
    /\ UNCHANGED shared

\* DeleteSecret: os.Remove under the exclusive lock.
CallDeleteSecret(p) ==
    /\ Free(p)
    /\ Start(p)
    /\ UNCHANGED <<cloudvars, schemas>>
    /\ mu = ""
    /\ \E k \in Keys :
          LET path == getSecretPath(k)
              c == Call("DeleteSecret", "del", k, "", NilMap, 0)
          IN IF files[path] = None
             THEN /\ th' = [th EXCEPT ![p] = Ret(c, "secret not found")]
                  /\ UNCHANGED <<files, nsets>>
             ELSE /\ files' = [files EXCEPT ![path] = None]
                  /\ th' = [th EXCEPT ![p] = Ret(c, "")]
                  /\ nsets' = [nsets EXCEPT ![k] = 0]
    /\ UNCHANGED <<ring, nkeys, clock, mu>>

---------------------------------------------------------------------------
(* RotateKey, lines 429-490.                                               *)

\* keys, err := p.ListSecrets(ctx, "")
CallRotateKey(p) ==
    /\ Free(p)
    /\ Start(p)
    /\ UNCHANGED <<cloudvars, schemas>>
    /\ mu = ""
    /\ th' = [th EXCEPT ![p] =
                [Call("RotateKey", "rot_read", "", "", NilMap, 0)
                   EXCEPT !.keys = ListSecrets(files, "")]]
    /\ UNCHANGED shared

\* One turn of "for _, key := range keys": GetSecret and json.Marshal; a key
\* that cannot be read is logged and skipped.
RotateKeyRead(p) ==
    /\ th[p].pc = "rot_read"
    /\ UNCHANGED <<left, cloudvars, schemas>>
    /\ th[p].keys # <<>>
    /\ mu = ""
    /\ LET key == Head(th[p].keys)
           r == GetSecret(files, ring, key)
       IN th' = [th EXCEPT ![p].keys = Tail(@),
                           ![p].warn = IF r.err # "" THEN @ \cup {key} ELSE @,
                           ![p].sdata = IF r.err # "" THEN @
                                        ELSE [k \in DOMAIN @ \cup {key} |->
                                                IF k = key THEN Marshal(r.secret[1])
                                                ELSE @[k]]]
    /\ UNCHANGED shared

\* p.mu.Lock(); p.keychain.GenerateKey("master_new")
RotateKeyGenerate(p) ==
    /\ th[p].pc = "rot_read"
    /\ UNCHANGED <<left, cloudvars, schemas>>
    /\ th[p].keys = <<>>
    /\ mu = ""
    /\ mu' = p
    /\ nkeys' = nkeys + 1
    /\ ring' = GenerateKey(ring, "master_new", nkeys + 1)
    /\ th' = [th EXCEPT ![p].pc = "rot_enc"]
    /\ UNCHANGED <<files, clock, nsets>>

\* A re-encryption that seals under the key still named "master".
ReEncryptOldKey(rg, data, nonce) == Encrypt(rg, "master", data, nonce)

\* encrypted, err := p.keychain.Encrypt("master_new", data)
ReEncrypt(rg, data, nonce) == Encrypt(rg, "master_new", data, nonce)

\* One turn of "for key, data := range secretsData" (a Go map: any order):
\* Encrypt under "master_new" and overwrite the file.
RotateKeyReEncrypt(p) ==
    /\ th[p].pc = "rot_enc"
    /\ UNCHANGED <<left, cloudvars, schemas>>
    /\ \E key \in DOMAIN th[p].sdata, n \in Nonces :
          LET e == ReEncrypt(ring, th[p].sdata[key], n)
              rest == [k \in DOMAIN th[p].sdata \ {key} |-> th[p].sdata[k]]
          IN IF e.err # ""
             THEN /\ th' = [th EXCEPT ![p].sdata = rest, ![p].warn = @ \cup {key}]
                  /\ UNCHANGED files
             ELSE /\ files' = [files EXCEPT ![getSecretPath(key)] = e.blob]
                  /\ th' = [th EXCEPT ![p].sdata = rest]
    /\ UNCHANGED <<ring, nkeys, clock, mu, nsets>>

\* p.keychain.DeleteKey("master")
RotateKeyDeleteOld(p) ==
    /\ th[p].pc = "rot_enc"
    /\ UNCHANGED <<left, cloudvars, schemas>>
    /\ DOMAIN th[p].sdata = {}
    /\ LET d == DeleteKey(ring, "master")
       IN IF d.err # ""
          THEN /\ th' = [th EXCEPT ![p] = Ret(@, "failed to delete old master key")]
               /\ mu' = ""
               /\ UNCHANGED ring
          ELSE /\ ring' = d.ring
               /\ th' = [th EXCEPT ![p].pc = "rot_rename"]
               /\ UNCHANGED mu
    /\ UNCHANGED <<files, nkeys, clock, nsets>>

\* RenameKey, first half: GetKey(oldName), keyring.Set(newName, ...).
RenameKeyStore(p) ==
    /\ th[p].pc = "rot_rename"
    /\ UNCHANGED <<left, cloudvars, schemas>>
    /\ LET k == GetKey(ring, "master_new")
       IN IF k.err # ""
          THEN /\ th' = [th EXCEPT ![p] = Ret(@, "failed to rename new master key")]
               /\ mu' = ""
               /\ UNCHANGED ring
          ELSE /\ ring' = [ring EXCEPT !["master"] = Some(k.key)]
               /\ th' = [th EXCEPT ![p].pc = "rot_rename_del"]
               /\ UNCHANGED mu
    /\ UNCHANGED <<files, nkeys, clock, nsets>>

\* RenameKey, second half: DeleteKey(oldName); RotateKey returns and unlocks.
RenameKeyDelete(p) ==
    /\ th[p].pc = "rot_rename_del"
    /\ UNCHANGED <<left, cloudvars, schemas>>
    /\ LET d == DeleteKey(ring, "master_new")
       IN /\ ring' = d.ring
          /\ th' = [th EXCEPT ![p] =
                      Ret(@, IF d.err # "" THEN "failed to rename new master key" ELSE "")]
    /\ mu' = ""
    /\ UNCHANGED <<files, nkeys, clock, nsets>>

---------------------------------------------------------------------------
(* The process stops; a provider is created again with New.                *)

\* The process stops while thread p is inside a call: the call's locals and
\* the lock go with the process; files and keyring stay as they are.
Crash(p) ==
    /\ ~Free(p)
    /\ th[p].pc # "crashed"
    /\ UNCHANGED <<left, cloudvars, schemas>>
    /\ th' = [th EXCEPT ![p] = [Idle EXCEPT !.pc = "crashed", !.op = th[p].op,
                                            !.pre = th[p].pre]]
    /\ mu' = ""
    /\ UNCHANGED <<files, ring, nkeys, clock, nsets>>

\* New -> initialize -> initializeMasterKey: a "master" key is generated when
\* the keyring has none.
New(p) ==
    /\ th[p].pc = "crashed"
    /\ UNCHANGED <<left, cloudvars, schemas>>
    /\ IF KeyExists(ring, "master")
       THEN UNCHANGED <<ring, nkeys>>
       ELSE /\ nkeys' = nkeys + 1
            /\ ring' = GenerateKey(ring, "master", nkeys + 1)
    /\ th' = [th EXCEPT ![p].pc = "recovered"]
    /\ UNCHANGED <<files, clock, mu, nsets>>

---------------------------------------------------------------------------
(* The plain-JSON LocalProvider (internal/providers/local): it keeps its   *)
(* records under the same <baseDir>/secrets, one <name>.json per secret.   *)

Names == Keys \cup {""}

\* filepath.Join(p.baseDir, "secrets", secret.Name+".json")
plainSecretPath(name) == IF name = "a" THEN "a.json" ELSE "b.json"

\* providers.NewSecret(name, value): one reading of the clock for both times.
\* A zero time.Time is <<>>.
PlainNewSecret(name, value, t) ==
    [Name |-> name, Value |-> value, Metadata |-> MkMap({}), Tags |-> <<>>,
     Schema |-> "", CreatedAt |-> Some(Now(t)), UpdatedAt |-> Some(Now(t))]

\* &providers.Secret{Name: name, Value: value}: every other field zero.
PlainLiteral(name, value) ==
    [Name |-> name, Value |-> value, Metadata |-> NilMap, Tags |-> <<>>,
     Schema |-> "", CreatedAt |-> None, UpdatedAt |-> None]

\* Secret.Validate of the plain record: name and value must not be empty.
PlainValidate(s) ==
    IF s.Name = "" THEN "secret name cannot be empty"
    ELSE IF s.Value = "" THEN "secret value cannot be empty"
    ELSE ""

\* The timestamps SetSecret assigns: CreatedAt only when it is zero.
PlainStamp(s, t) ==
    [s EXCEPT !.CreatedAt = IF @ = None THEN Some(Now(t)) ELSE @,
              !.UpdatedAt = Some(Now(t))]

\* json.MarshalIndent of the plain record: the text of the file.  metadata is
\* omitempty; tags and schema, empty in every record here, are left out too.
PlainMarshal(s) ==
    IF s.Metadata.kv = {}
    THEN [kind |-> "json", name |-> s.Name, value |-> s.Value,
          created_at |-> MarshalTime(s.CreatedAt[1]),
          updated_at |-> MarshalTime(s.UpdatedAt[1])]
    ELSE [kind |-> "json", name |-> s.Name, value |-> s.Value,
          metadata |-> s.Metadata.kv,
          created_at |-> MarshalTime(s.CreatedAt[1]),
          updated_at |-> MarshalTime(s.UpdatedAt[1])]

\* LocalProvider.SetSecret of the plain provider, under p.mu.Lock() from entry
\* to return; the secret comes from NewSecret (made) or from a literal, with
\* or without metadata, and has no schema.
PlainSetSecret(p) ==
    /\ Free(p)
    /\ Start(p)
    /\ UNCHANGED <<cloudvars, schemas>>
    /\ mu = ""
    /\ \E name \in Names, v \in Values, m \in Metas, made \in BOOLEAN :
       \E t0 \in Later(clock) : \E t \in Later(IF made THEN t0 ELSE clock) :
          LET s0 == IF made THEN PlainNewSecret(name, v, t0) ELSE PlainLiteral(name, v)
              s == IF m.nil THEN s0 ELSE [s0 EXCEPT !.Metadata = m]
              err == PlainValidate(s)
              c == Call("PlainSetSecret", "plain_set", name, v, m, 0)
          IN /\ ~made => t0 = clock
             /\ IF err # ""
                THEN /\ th' = [th EXCEPT ![p] = Ret(c, "invalid secret")]
                     /\ clock' = (IF made THEN t0 ELSE clock)
                     /\ UNCHANGED files
                ELSE /\ files' = [files EXCEPT ![plainSecretPath(name)] =
                                        Some(PlainMarshal(PlainStamp(s, t)))]
                     /\ clock' = t
                     /\ th' = [th EXCEPT ![p] = Ret(c, "")]
    /\ UNCHANGED <<ring, nkeys, mu, nsets>>

\* LocalProvider.DeleteSecret of the plain provider: os.Remove under the lock.
PlainDeleteSecret(p) ==
    /\ Free(p)
    /\ Start(p)
    /\ UNCHANGED <<cloudvars, schemas>>
    /\ mu = ""
    /\ \E name \in Keys :
          LET c == Call("PlainDeleteSecret", "plain_del", name, "", NilMap, 0)
          IN IF files[plainSecretPath(name)] = None
             THEN /\ th' = [th EXCEPT ![p] = Ret(c, "secret not found")]
                  /\ UNCHANGED files
             ELSE /\ files' = [files EXCEPT ![plainSecretPath(name)] = None]
                  /\ th' = [th EXCEPT ![p] = Ret(c, "")]
    /\ UNCHANGED <<ring, nkeys, clock, mu, nsets>>

---------------------------------------------------------------------------
(* Specifications.                                                         *)

\* One caller: every call runs to its return before the next starts.
Init == Fresh /\ left = [p \in Threads |-> IF p = "t1" THEN MaxCalls ELSE 0]

Next ==
    \E p \in Threads :
        \/ CallSetSecret(p)
        \/ CallRollbackSecret(p)
        \/ CallUpdateMetadata(p)
        \/ CallDeleteSecret(p)
        \/ CallRotateKey(p)
        \/ SetSecretGet(p)
        \/ SetSecretBuild(p)
        \/ SetSecretWrite(p)
        \/ RotateKeyRead(p)
        \/ RotateKeyGenerate(p)
        \/ RotateKeyReEncrypt(p)
        \/ RotateKeyDeleteOld(p)
        \/ RenameKeyStore(p)
        \/ RenameKeyDelete(p)

Spec == Init /\ [][Next]_vars

\* Callers on two goroutines of one provider, interleaved step by step: the
\* first makes up to MaxConcCalls calls, the second one call; each call is a
\* SetSecret (of the thread's own value) or a RotateKey.
InitConc == Fresh /\ left = [p \in Threads |-> IF p = "t1" THEN MaxConcCalls ELSE 1]

ConcValue(p) == IF p = "t1" THEN "v1" ELSE "v2"

ConcSetSecret(p) == SetSecretOf(p, Keys, {ConcValue(p)}, {NilMap})

NextConc ==
    \E p \in Threads :
        \/ ConcSetSecret(p)
        \/ CallRotateKey(p)
        \/ SetSecretBuild(p)
        \/ SetSecretWrite(p)
        \/ RotateKeyRead(p)
        \/ RotateKeyGenerate(p)
        \/ RotateKeyReEncrypt(p)
        \/ RotateKeyDeleteOld(p)
        \/ RenameKeyStore(p)
        \/ RenameKeyDelete(p)

SpecConc == InitConc /\ [][NextConc]_vars

\* One caller of SetSecret and RotateKey; the process may stop inside any call
\* and is then started again.
NextCrash ==
    \E p \in Threads :
        \/ ConcSetSecret(p)
        \/ CallRotateKey(p)
        \/ SetSecretBuild(p)
        \/ SetSecretWrite(p)
        \/ RotateKeyRead(p)
        \/ RotateKeyGenerate(p)
        \/ RotateKeyReEncrypt(p)
        \/ RotateKeyDeleteOld(p)
        \/ RenameKeyStore(p)
        \/ RenameKeyDelete(p)
        \/ Crash(p)
        \/ New(p)

SpecCrash == Init /\ [][NextCrash]_vars

\* One caller of the plain-JSON provider.
NextPlain ==
    \E p \in Threads :
        \/ PlainSetSecret(p)
        \/ PlainDeleteSecret(p)

SpecPlain == Init /\ [][NextPlain]_vars

---------------------------------------------------------------------------
(* Vocabulary of the properties.                                           *)

\* Thread p has just returned from op.
Returned(p, op) == th[p].pc = "ret" /\ th[p].op = op

\* The store as it was when thread p's call started.
Before(p) == th[p].pre[1]

\* Two maps with the same entries (a nil map and an empty map read alike).
SameEntries(m1, m2) == m1.kv = m2.kv

\* The records along a chain, newest first.
RECURSIVE Chain(_)
Chain(cur) == IF cur = None THEN <<>> ELSE <<cur[1]>> \o Chain(cur[1].PrevVersion)

\* <<n, n-1, ..., 1>>
Countdown(n) == [i \in 1 .. n |-> n + 1 - i]

\* The chain has versions v, v-1, ..., 1 and one createdAt.
ChainOK(cur) ==
    LET c == Chain(cur)
    IN /\ \A i \in DOMAIN c : c[i].Version = Len(c) + 1 - i
       /\ \A i, j \in DOMAIN c : c[i].Created = c[j].Created

\* The current version of key k in store (fs, rg); 0 when GetSecret fails.
CurrentVersion(fs, rg, k) ==
    LET g == GetSecret(fs, rg, k) IN IF g.err = "" THEN g.secret[1].Version ELSE 0

---------------------------------------------------------------------------
(* C1  Round trip.  When SetSecret(key, value, metadata) on a key that was *)
(* absent returns success, GetSecret(key) returns a record with that value *)
(* and metadata, version 1, and createdAt equal to updatedAt.              *)

C1_RoundTripParts(p, withTimes) ==
    (Returned(p, "SetSecret") /\ th[p].res = ""
        /\ Before(p).files[getSecretPath(th[p].key)] = None)
    => LET g == GetSecret(files, ring, th[p].key)
       IN /\ g.err = ""
          /\ g.secret[1].Value = th[p].value
          /\ SameEntries(g.secret[1].Metadata, th[p].meta)
          /\ g.secret[1].Version = 1
          /\ withTimes => g.secret[1].Created = g.secret[1].Updated

\* C1 as claimed: value, metadata, version 1 and createdAt = updatedAt.
C1_RoundTrip == C1_RoundTripParts("t1", TRUE)

---------------------------------------------------------------------------
(* C2  Version monotonicity.  After N successful SetSecret calls on a key  *)
(* that started absent, ListSecretVersions is <<N, ..., 1>>, every version *)
(* has the same createdAt, and a write whose first clock reading is later  *)
(* than the previous version's updatedAt has a later updatedAt.            *)

C2_VersionMonotonicity ==
    /\ Free("t1") =>
          \A k \in Keys : nsets[k] >= 1 =>
             LET g == GetSecret(files, ring, k)
                 l == ListSecretVersions(files, ring, k)
             IN /\ l.err = ""
                /\ l.versions = Countdown(nsets[k])
                /\ \A i, j \in DOMAIN Chain(g.secret) :
                      Chain(g.secret)[i].Created = Chain(g.secret)[j].Created
    /\ (Returned("t1", "SetSecret") /\ th["t1"].res = "" /\ th["t1"].prev # None
          /\ th["t1"].now1 > th["t1"].prev[1].Updated.wall)
       => LET g == GetSecret(files, ring, th["t1"].key)
          IN /\ g.err = ""
             /\ g.secret[1].PrevVersion # None
             /\ g.secret[1].Updated.wall > g.secret[1].PrevVersion[1].Updated.wall

C2_Witness ==
    /\ Returned("t1", "SetSecret") /\ th["t1"].res = ""
    /\ nsets[th["t1"].key] = 3
    /\ th["t1"].now1 > th["t1"].prev[1].Updated.wall

---------------------------------------------------------------------------
(* C3  Chain invariant.  Between calls, every stored key is readable and   *)
(* its chain has versions v, v-1, ..., 1 and one createdAt.                *)

C3_ChainInvariant ==
    Free("t1") =>
       \A k \in Keys : files[getSecretPath(k)] # None =>
          LET g == GetSecret(files, ring, k)
          IN g.err = "" /\ ChainOK(g.secret)

\* A chain of two versions read back after a key rotation.
C3_Witness ==
    /\ Returned("t1", "RotateKey") /\ th["t1"].res = ""
    /\ \E k \in Keys : CurrentVersion(files, ring, k) = 2

---------------------------------------------------------------------------
(* C4  Rollback allocates a new version and keeps history.  After          *)
(* RollbackSecret(k, v) succeeds with current version c, GetSecret(k) has  *)
(* version c+1 and the value and metadata of version v, and every version  *)
(* 1..c is retrievable with the value and metadata it had.                 *)

C4_Rollback ==
    (Returned("t1", "RollbackSecret") /\ th["t1"].res = "") =>
       LET k == th["t1"].key
           b == Before("t1")
           c == CurrentVersion(b.files, b.ring, k)
           g == GetSecret(files, ring, k)
           old == GetSecretVersion(b.files, b.ring, k, th["t1"].ver)
           now == GetSecretVersion(files, ring, k, th["t1"].ver)
       IN /\ old.err = "" /\ now.err = "" /\ g.err = ""
          /\ g.secret[1].Version = c + 1
          /\ g.secret[1].Value = old.secret[1].Value
          /\ g.secret[1].Metadata = old.secret[1].Metadata
          /\ g.secret[1].Value = now.secret[1].Value
          /\ g.secret[1].Metadata = now.secret[1].Metadata
          /\ \A n \in 1 .. c :
                LET o == GetSecretVersion(b.files, b.ring, k, n)
                    a == GetSecretVersion(files, ring, k, n)
                IN /\ o.err = "" /\ a.err = ""
                   /\ a.secret[1].Value = o.secret[1].Value
                   /\ a.secret[1].Metadata = o.secret[1].Metadata

\* A rollback to an older version whose value differs from the current one.
C4_Witness ==
    /\ Returned("t1", "RollbackSecret") /\ th["t1"].res = ""
    /\ LET b == Before("t1")
           k == th["t1"].key
       IN /\ th["t1"].ver < CurrentVersion(b.files, b.ring, k)
          /\ GetSecret(b.files, b.ring, k).secret[1].Value
               # GetSecretVersion(b.files, b.ring, k, th["t1"].ver).secret[1].Value

---------------------------------------------------------------------------
(* C5  A version absent from the chain.  GetSecretVersion(k, n) with       *)
(* n < 1, n above the current version or k not stored is an error, and     *)
(* RollbackSecret(k, n) then returns that error and leaves every file and  *)
(* the keyring as they were.                                               *)

Absent(fs, rg, k, n) == n < 1 \/ n > CurrentVersion(fs, rg, k)

NotFoundErrors == {"secret not found", "version not found"}

C5_VersionNotFound ==
    /\ Free("t1") =>
          \A k \in Keys, n \in VersionArgs : Absent(files, ring, k, n) =>
             GetSecretVersion(files, ring, k, n).err \in NotFoundErrors
    /\ (Returned("t1", "RollbackSecret")
          /\ Absent(Before("t1").files, Before("t1").ring, th["t1"].key, th["t1"].ver))
       => /\ th["t1"].res \in NotFoundErrors
          /\ files = Before("t1").files
          /\ ring = Before("t1").ring

\* A rollback of a stored key to a version above its current one.
C5_Witness ==
    /\ Returned("t1", "RollbackSecret")
    /\ th["t1"].res = "version not found"
    /\ th["t1"].ver > CurrentVersion(files, ring, th["t1"].key)
    /\ \E k \in Keys \ {th["t1"].key} : files[getSecretPath(k)] # None

---------------------------------------------------------------------------
(* C6  Rotation correctness.  After RotateKey returns success with no key  *)
(* logged as failed, GetSecret succeeds for every key stored before the    *)
(* rotation and returns the value and metadata it had.                     *)

C6_RotationCorrect ==
    (Returned("t1", "RotateKey") /\ th["t1"].res = "" /\ th["t1"].warn = {}) =>
       \A k \in Paths : Before("t1").files[k] # None =>
          LET o == GetSecret(Before("t1").files, Before("t1").ring, k)
              g == GetSecret(files, ring, k)
          IN /\ o.err = "" /\ g.err = ""
             /\ g.secret[1].Value = o.secret[1].Value
             /\ g.secret[1].Metadata = o.secret[1].Metadata

\* A rotation over two stored keys that installed a new master key.
C6_Witness ==
    /\ Returned("t1", "RotateKey") /\ th["t1"].res = "" /\ th["t1"].warn = {}
    /\ \A k \in Keys : Before("t1").files[k] # None
    /\ ring["master"] # Before("t1").ring["master"]

---------------------------------------------------------------------------
(* C7  No mixed-key corpus under concurrent access.  When one RotateKey    *)
(* and one SetSecret, each the first call of its thread, have interleaved  *)
(* and both returned success, GetSecret succeeds for every key that        *)
(* ListSecrets("") returns.                                                *)

\* Every key ListSecrets("") returns can be read under the key named master.
AllReadable(fs, rg) ==
    \A i \in DOMAIN ListSecrets(fs, "") :
       GetSecret(fs, rg, ListSecrets(fs, "")[i]).err = ""

C7_NoMixedKeys ==
    (/\ \A p \in Threads : th[p].pc = "ret" /\ th[p].res = ""
     /\ left = [p \in Threads |-> IF p = "t1" THEN MaxConcCalls - 1 ELSE 0]
     /\ \E p \in Threads : th[p].op = "RotateKey"
     /\ \E p \in Threads : th[p].op = "SetSecret")
    => AllReadable(files, ring)

---------------------------------------------------------------------------
(* C8  A crash during rotation.  When the process stopped inside RotateKey *)
(* and a provider was created again with New, GetSecret succeeds for every *)
(* key that was readable when the rotation started.                        *)

C8_CrashSafeRotation ==
    \A p \in Threads :
       (th[p].pc = "recovered" /\ th[p].op = "RotateKey") =>
          \A k \in Keys :
             GetSecret(Before(p).files, Before(p).ring, k).err = ""
                => GetSecret(files, ring, k).err = ""

---------------------------------------------------------------------------
(* C9  Encryption opacity.  Every file under the secrets directory is an   *)
(* AEAD ciphertext sealed under a key the keychain produced.               *)

C9_EncryptionOpacity ==
    \A path \in Paths : files[path] # None =>
       /\ files[path][1].kind = "aead"
       /\ files[path][1].key \in 1 .. nkeys

---------------------------------------------------------------------------
(* C10  Total order of SetSecret calls on one key.  With no rotation, when *)
(* every thread has returned, a key on which N SetSecret calls returned    *)
(* success since it was absent has the version list <<N, ..., 1>>.         *)

C10_SetSecretTotalOrder ==
    (nkeys = 1 /\ \A p \in Threads : Free(p)) =>
       \A k \in Keys : nsets[k] >= 1 =>
          ListSecretVersions(files, ring, k).versions = Countdown(nsets[k])

---------------------------------------------------------------------------
(* C11  Concurrent writers lose no data.  When two SetSecret calls on one  *)
(* key, each the first call of its thread, have interleaved and both       *)
(* returned success, the value each wrote is the value of some version in  *)
(* the key's chain.                                                        *)

\* The values of the versions GetSecretVersion can return for key k.
ChainValues(fs, rg, k) ==
    LET c == Chain(GetSecret(fs, rg, k).secret)
    IN {c[i].Value : i \in DOMAIN c}

C11_NoLostWrite ==
    (/\ \A p \in Threads : Returned(p, "SetSecret") /\ th[p].res = ""
     /\ left = [p \in Threads |-> IF p = "t1" THEN MaxConcCalls - 1 ELSE 0]
     /\ th["t1"].key = th["t2"].key)
    => \A p \in Threads :
          /\ GetSecret(files, ring, th[p].key).err = ""
          /\ th[p].value \in ChainValues(files, ring, th[p].key)

---------------------------------------------------------------------------
(* C12  RotateKey reports a partial failure.  When RotateKey has returned  *)
(* and at least one listed key was logged as failed (read, serialization,  *)
(* encryption or write), the result is an error, not plain success.        *)

C12_RotateReportsFailures ==
    \A p \in Threads :
       (Returned(p, "RotateKey") /\ th[p].warn # {}) => th[p].res # ""

---------------------------------------------------------------------------
(* DeleteKey and CleanupInvalidSecrets, lines 493-529.                     *)

\* LocalProvider.DeleteKey: keychain.DeleteKey("master") under the lock.
CallDeleteKey(p) ==
    /\ Free(p)
    /\ Start(p)
    /\ UNCHANGED <<cloudvars, schemas>>
    /\ mu = ""
    /\ LET d == DeleteKey(ring, "master")
           c == Call("DeleteKey", "delkey", "", "", NilMap, 0)
       IN /\ ring' = d.ring
          /\ th' = [th EXCEPT ![p] =
                      Ret(c, IF d.err # "" THEN "failed to delete master key" ELSE "")]
    /\ UNCHANGED <<files, nkeys, clock, mu, nsets>>

\* A provider is created again over the same directory and keyring: New ->
\* initialize -> initializeMasterKey, up to the return of
\* KeyExists("master").  The directories exist; the answer is kept in ver
\* (1: exists).  The mutex initialize holds is the new provider's own.
CallNewKeyExists(p) ==
    /\ Free(p)
    /\ Start(p)
    /\ th' = [th EXCEPT ![p] =
                Call("New", "new_generate", "", "", NilMap,
                     IF KeyExists(ring, "master") THEN 1 ELSE 0)]
    /\ UNCHANGED <<shared, cloudvars, schemas>>

\* if !exists { GenerateKey("master") }, and New returns the provider.
NewGenerateKey(p) ==
    /\ th[p].pc = "new_generate"
    /\ IF th[p].ver = 1
       THEN UNCHANGED <<ring, nkeys>>
       ELSE /\ nkeys' = nkeys + 1
            /\ ring' = GenerateKey(ring, "master", nkeys + 1)
    /\ th' = [th EXCEPT ![p] = Ret(@, "")]
    /\ UNCHANGED <<left, files, clock, mu, nsets, cloudvars, schemas>>

\* keys, err := p.ListSecrets(ctx, "")
CallCleanupInvalidSecrets(p) ==
    /\ Free(p)
    /\ Start(p)
    /\ UNCHANGED <<cloudvars, schemas>>
    /\ mu = ""
    /\ th' = [th EXCEPT ![p] =
                [Call("CleanupInvalidSecrets", "clean_check", "", "", NilMap, 0)
                   EXCEPT !.keys = ListSecrets(files, "")]]
    /\ UNCHANGED shared

\* One turn of the first loop: a key whose GetSecret fails, whatever the
\* error, is appended to invalidKeys.
CleanupCheck(p) ==
    /\ th[p].pc = "clean_check"
    /\ UNCHANGED <<left, cloudvars, schemas>>
    /\ th[p].keys # <<>>
    /\ mu = ""
    /\ LET key == Head(th[p].keys)
           r == GetSecret(files, ring, key)
       IN th' = [th EXCEPT ![p].keys = Tail(@),
                           ![p].invalid = IF r.err # "" THEN Append(@, key) ELSE @]
    /\ UNCHANGED shared

\* One turn of the second loop: DeleteSecret(key); a failure is logged.
CleanupDelete(p) ==
    /\ th[p].pc = "clean_check"
    /\ UNCHANGED <<left, cloudvars, schemas>>
    /\ th[p].keys = <<>>
    /\ th[p].invalid # <<>>
    /\ mu = ""
    /\ LET key == Head(th[p].invalid)
           path == getSecretPath(key)
       IN IF files[path] = None
          THEN /\ th' = [th EXCEPT ![p].invalid = Tail(@), ![p].warn = @ \cup {key}]
               /\ UNCHANGED <<files, nsets>>
          ELSE /\ files' = [files EXCEPT ![path] = None]
               /\ th' = [th EXCEPT ![p].invalid = Tail(@)]
               /\ nsets' = [k \in Keys |-> IF k = key THEN 0 ELSE nsets[k]]
    /\ UNCHANGED <<ring, nkeys, clock, mu>>

\* Both loops are done: return nil.
CleanupReturn(p) ==
    /\ th[p].pc = "clean_check"
    /\ UNCHANGED <<left, cloudvars, schemas>>
    /\ th[p].keys = <<>>
    /\ th[p].invalid = <<>>
    /\ th' = [th EXCEPT ![p] = Ret(@, "")]
    /\ UNCHANGED shared

\* One caller of SetSecret, DeleteKey, New and CleanupInvalidSecrets.
NextCleanup ==
    \E p \in Threads :
        \/ ConcSetSecret(p)
        \/ SetSecretBuild(p)
        \/ SetSecretWrite(p)
        \/ CallDeleteKey(p)
        \/ CallNewKeyExists(p)
        \/ NewGenerateKey(p)
        \/ CallCleanupInvalidSecrets(p)
        \/ CleanupCheck(p)
        \/ CleanupDelete(p)
        \/ CleanupReturn(p)

SpecCleanup == Init /\ [][NextCleanup]_vars

---------------------------------------------------------------------------
(* C13  Cleanup deletes only corrupt secrets.  When CleanupInvalidSecrets  *)
(* has returned, every file it removed held a blob that failed to decrypt  *)
(* under a master key present in the keychain; no file is removed while    *)
(* the master key is absent.                                               *)

\* The blob fails authentication under the master key the keychain holds.
BlobInvalid(rg, blob) ==
    KeyExists(rg, "master") /\ Decrypt(rg, "master", blob).err # ""

C13_CleanupOnlyCorrupt ==
    \A p \in Threads :
       Returned(p, "CleanupInvalidSecrets") =>
          \A path \in Paths :
             (Before(p).files[path] # None /\ files[path] = None)
                => BlobInvalid(Before(p).ring, Before(p).files[path][1])

---------------------------------------------------------------------------
(* The remote backends (GCP Secret Manager, Azure Key Vault, AWS Secrets   *)
(* Manager, Vault): strings, metadata maps and rotation policies.          *)

MaxCloudCalls == 4   \* calls one caller makes to a remote backend in a run

CloudBackends == {"gcp", "azure", "aws", "vault"}
CloudKeys == {"a"}

\* A string is the sequence of its characters.
V1 == <<"v", "1">>
CloudValues == {V1}

\* strconv of one decimal digit.
DigitChar(d) == <<"0", "1", "2", "3", "4", "5", "6", "7", "8", "9">>[d + 1]

\* fmt.Sprintf("%d", n) for n >= 0.
RECURSIVE Digits(_)
Digits(n) == IF n < 10 THEN <<DigitChar(n)>>
             ELSE Digits(n \div 10) \o <<DigitChar(n % 10)>>

\* time.Time.Unix() and Format(time.RFC3339): whole seconds; the clock of the
\* model counts whole seconds.
Unix(t) == t.wall
FormatRFC3339(t) == t.wall

\* time.Time.Add
AddDuration(t, d) == [t EXCEPT !.wall = @ + d]

\* m[key], ok
MapHas(m, key) == \E pr \in m.kv : pr[1] = key
MapGet(m, key) == (CHOOSE pr \in m.kv : pr[1] = key)[2]

\* if m == nil { m = make(map[string]string) }; m[key] = val
MapPut(m, key, val) ==
    MkMap({pr \in m.kv : pr[1] # key} \cup {<<key, val>>})

\* The caller's func() (string, error) of a policy returns this value.
CustomValue == <<"c", "u", "s", "t", "o", "m">>

Intervals == {1}
Lengths == {4}
CharacterSets == {"numeric", "ascii"}
NextRotations == {0, MaxClock + 1}

\* providers.RotationPolicy as callers build it: lastRotation one interval
\* before nextRotation.  CustomGenerator is TRUE for a non-nil func.
Policies ==
    {[Interval |-> i, Length |-> l, CharacterSet |-> cs,
      LastRotation |-> UnmarshalTime(n - i), NextRotation |-> UnmarshalTime(n),
      CustomGenerator |-> g] :
        i \in Intervals, l \in Lengths, cs \in CharacterSets,
        n \in NextRotations, g \in BOOLEAN}

\* json.Marshal of a policy: a func is not persisted.
PolicyMarshal(pol) ==
    [interval |-> pol.Interval, length |-> pol.Length,
     character_set |-> pol.CharacterSet,
     last_rotation |-> MarshalTime(pol.LastRotation),
     next_rotation |-> MarshalTime(pol.NextRotation)]

PolicyUnmarshal(j) ==
    [Interval |-> j.interval, Length |-> j.length, CharacterSet |-> j.character_set,
     LastRotation |-> UnmarshalTime(j.last_rotation),
     NextRotation |-> UnmarshalTime(j.next_rotation),
     CustomGenerator |-> FALSE]

\* providers.DefaultRotationPolicy(): some policy without a generator.
DefaultPolicies == {pol \in Policies : ~pol.CustomGenerator}

\* providers.RandInt(min, max): some integer of min .. max.
RandInt(min, max) == min .. max

---------------------------------------------------------------------------
(* The remote backends: GetSecret and SetSecret.                           *)

\* The backend's client stores a payload as a new version of the key.
RemoteWrite(rs, k, payload) ==
    [rs EXCEPT !.secrets[k] =
        Some([data |-> payload, nver |-> IF @ = None THEN 1 ELSE @[1].nver + 1])]

\* json.Unmarshal of a stored payload into a Secret.
CloudUnmarshal(j) ==
    [Value |-> j.value, Metadata |-> UnmarshalMap(j.metadata),
     CreatedAt |-> UnmarshalTime(j.created_at),
     UpdatedAt |-> UnmarshalTime(j.updated_at)]

\* json.Marshal of the Secret a SetSecret builds.
CloudMarshal(value, meta, created, updated) ==
    [value |-> value, metadata |-> MarshalMap(meta),
     created_at |-> MarshalTime(created), updated_at |-> MarshalTime(updated)]

\* GCPProvider.GetSecret
GcpGetSecret(rs, k) ==
    IF rs.secrets[k] = None
    THEN [err |-> "failed to access secret version", secret |-> None]
    ELSE [err |-> "", secret |-> Some(CloudUnmarshal(rs.secrets[k][1].data))]

\* AzureProvider.GetSecret
AzureGetSecret(rs, k) ==
    IF rs.secrets[k] = None
    THEN [err |-> "failed to get secret", secret |-> None]
    ELSE [err |-> "", secret |-> Some(CloudUnmarshal(rs.secrets[k][1].data))]

\* AWSProvider.GetSecret
AwsGetSecret(rs, k) ==
    IF rs.secrets[k] = None
    THEN [err |-> "failed to get secret", secret |-> None]
    ELSE [err |-> "", secret |-> Some(CloudUnmarshal(rs.secrets[k][1].data))]

\* VaultProvider.GetSecret: value and metadata only; the metadata map it
\* returns is never nil.
VaultGetSecret(rs, k) ==
    IF rs.secrets[k] = None
    THEN [err |-> "secret not found", secret |-> None]
    ELSE LET d == rs.secrets[k][1].data
         IN [err |-> "",
             secret |-> Some([Value |-> d.value,
                              Metadata |-> MkMap(UnmarshalMap(d.metadata).kv)])]

\* GetSecret of backend b.
CloudGetSecret(b, rs, k) ==
    CASE b = "gcp" -> GcpGetSecret(rs, k)
      [] b = "azure" -> AzureGetSecret(rs, k)
      [] b = "aws" -> AwsGetSecret(rs, k)
      [] OTHER -> VaultGetSecret(rs, k)

\* GCPProvider.SetSecret: CreatedAt and UpdatedAt from two readings of the clock.
GcpSetSecret(rs, k, value, meta, t1, t2) ==
    RemoteWrite(rs, k, CloudMarshal(value, meta, Now(t1), Now(t2)))

\* AzureProvider.SetSecret: the creation time of an existing secret is kept.
AzureSetSecret(rs, k, value, meta, t1, t2) ==
    LET g == AzureGetSecret(rs, k)
        created == IF g.err = "" THEN g.secret[1].CreatedAt ELSE Now(t1)
    IN RemoteWrite(rs, k, CloudMarshal(value, meta, created, Now(t2)))

\* AWSProvider.SetSecret: one reading of the clock; create, or update when the
\* secret exists.
AwsSetSecret(rs, k, value, meta, t1) ==
    RemoteWrite(rs, k, CloudMarshal(value, meta, Now(t1), Now(t1)))

\* VaultProvider.SetSecret: {"value": value, "metadata": metadata}.
VaultSetSecret(rs, k, value, meta) ==
    RemoteWrite(rs, k, [value |-> value, metadata |-> MarshalMap(meta)])

\* SetSecret of backend b after the clock reading t0: the store it leaves and
\* the last reading of the clock.
CloudSetSecret(b, rs, k, value, meta, t0, t1, t2) ==
    CASE b = "gcp" -> [remote |-> GcpSetSecret(rs, k, value, meta, t1, t2), clock |-> t2]
      [] b = "azure" -> [remote |-> AzureSetSecret(rs, k, value, meta, t1, t2), clock |-> t2]
      [] b = "aws" -> [remote |-> AwsSetSecret(rs, k, value, meta, t1), clock |-> t1]
      [] OTHER -> [remote |-> VaultSetSecret(rs, k, value, meta), clock |-> t0]

\* DeleteSecret of backend b: the client removes the key with all its
\* versions.  GCP, Azure and AWS report a key that is not stored; Vault's
\* Logical().Delete of an absent path succeeds, and the side record
\* <path>/<key>/rotation is another path, which stays.
CloudDeleteSecret(b, rs, k) ==
    IF b # "vault" /\ rs.secrets[k] = None
    THEN [err |-> "failed to delete secret", remote |-> rs]
    ELSE [err |-> "", remote |-> [rs EXCEPT !.secrets[k] = None]]

---------------------------------------------------------------------------
(* The remote backends: rotation policies and RotateSecret.                *)

\* GCPProvider.GetRotationPolicy and AzureProvider.GetRotationPolicy: the
\* policy kept in metadata["rotation_policy"]; without one, the default policy
\* def.
GcpGetRotationPolicy(g, def) ==
    IF g.err # "" THEN def
    ELSE IF g.secret[1].Metadata.nil THEN def
    ELSE IF ~MapHas(g.secret[1].Metadata, "rotation_policy") THEN def
    ELSE PolicyUnmarshal(MapGet(g.secret[1].Metadata, "rotation_policy"))

\* AWSProvider.GetRotationPolicy: (nil, nil) when the secret has no policy.
AwsGetRotationPolicy(rs, k) ==
    LET g == AwsGetSecret(rs, k)
    IN IF g.err # "" THEN [err |-> "failed to get secret", policy |-> None]
       ELSE IF g.secret[1].Metadata.nil THEN [err |-> "", policy |-> None]
       ELSE IF ~MapHas(g.secret[1].Metadata, "rotation_policy")
       THEN [err |-> "", policy |-> None]
       ELSE [err |-> "",
             policy |-> Some(PolicyUnmarshal(MapGet(g.secret[1].Metadata,
                                                    "rotation_policy")))]

\* VaultProvider.GetRotationPolicy: the side record <path>/<key>/rotation.
VaultGetRotationPolicy(rs, k) ==
    IF rs.rotation[k] = None
    THEN [err |-> "rotation policy not found", policy |-> None]
    ELSE [err |-> "", policy |-> Some(PolicyUnmarshal(rs.rotation[k][1]))]

\* time.Now().Before(policy.NextRotation), with t the reading of the clock.
NotDueYet(t, pol) == t < pol.NextRotation.wall

\* fmt.Sprintf("rotated-%s-%d", secret.Value, time.Now().Unix())
RotatedValue(value, t) ==
    <<"r", "o", "t", "a", "t", "e", "d", "-">> \o value \o <<"-">> \o Digits(Unix(Now(t)))

\* GCPProvider.RotateSecret (AzureProvider.RotateSecret is the same text); t0
\* is the clock at the call, t the sequence of the six readings of the clock
\* a rotation can take, def the default policy.
GcpRotateSecret(b, rs, k, t0, t, def) ==
    LET g == CloudGetSecret(b, rs, k)
        pol == GcpGetRotationPolicy(g, def)
        newValue == IF pol.CustomGenerator THEN CustomValue
                    ELSE RotatedValue(g.secret[1].Value, t[2])
        m1 == MapPut(g.secret[1].Metadata, "previous_value", g.secret[1].Value)
        m2 == MapPut(m1, "last_rotation", FormatRFC3339(Now(t[3])))
        m3 == MapPut(m2, "next_rotation",
                     FormatRFC3339(AddDuration(Now(t[4]), pol.Interval)))
        w == CloudSetSecret(b, rs, k, newValue, m3, t[4], t[5], t[6])
    IN IF g.err # ""
       THEN [err |-> "failed to get secret for rotation", remote |-> rs, clock |-> t0]
       ELSE IF NotDueYet(t[1], pol)
       THEN [err |-> "", remote |-> rs, clock |-> t[1]]
       ELSE [err |-> "", remote |-> w.remote, clock |-> w.clock]

\* The value AWSProvider.RotateSecret and VaultProvider.RotateSecret write:
\* fmt.Sprintf("%d", providers.RandInt(policy.Length, policy.Length))
RandomNumberValues(pol) == {Digits(n) : n \in RandInt(pol.Length, pol.Length)}

\* AWSProvider.RotateSecret: policy.Length of a nil policy is a nil pointer
\* dereference.  t0 is the clock at the call, t1 the reading SetSecret takes.
AwsRotateSecret(rs, k, t0, t1, newValue) ==
    LET pr == AwsGetRotationPolicy(rs, k)
        g == AwsGetSecret(rs, k)
        w == CloudSetSecret("aws", rs, k, newValue, g.secret[1].Metadata, t0, t1, t1)
    IN IF pr.err # ""
       THEN [err |-> "failed to get rotation policy", remote |-> rs, clock |-> t0]
       ELSE IF g.err # ""
       THEN [err |-> "failed to get secret", remote |-> rs, clock |-> t0]
       ELSE IF pr.policy = None
       THEN [err |-> "panic: nil pointer dereference", remote |-> rs, clock |-> t0]
       ELSE [err |-> "", remote |-> w.remote, clock |-> w.clock]

\* VaultProvider.RotateSecret
VaultRotateSecret(rs, k, t0, newValue) ==
    LET pr == VaultGetRotationPolicy(rs, k)
        g == VaultGetSecret(rs, k)
        w == CloudSetSecret("vault", rs, k, newValue, g.secret[1].Metadata, t0, t0, t0)
    IN IF pr.err # ""
       THEN [err |-> "failed to get rotation policy", remote |-> rs, clock |-> t0]
       ELSE IF g.err # ""
       THEN [err |-> "failed to get secret", remote |-> rs, clock |-> t0]
       ELSE [err |-> "", remote |-> w.remote, clock |-> w.clock]

---------------------------------------------------------------------------
(* The remote backends: the calls of one caller.                           *)

\* The readings six successive time.Now() calls can return after the reading c.
Readings(c) ==
    {t \in [1 .. 6 -> Later(c)] : \A i \in 1 .. 5 : t[i] <= t[i + 1]}

\* SetSecret(ctx, key, value, metadata)
CallCloudSetSecret(p) ==
    /\ Free(p)
    /\ left[p] > 0
    /\ left' = [left EXCEPT ![p] = @ - 1]
    /\ backend # "local"
    /\ \E k \in CloudKeys, v \in CloudValues, m \in Metas, t \in Readings(clock) :
          LET w == CloudSetSecret(backend, remote, k, v, m, clock, t[1], t[2])
          IN /\ remote' = w.remote
             /\ clock' = w.clock
             /\ th' = [th EXCEPT ![p] = Ret(Call("SetSecret", "cloud", k, v, m, 0), "")]
    /\ UNCHANGED <<localvars, backend, supplied>>

\* DeleteSecret(ctx, key)
CallCloudDeleteSecret(p) ==
    /\ Free(p)
    /\ left[p] > 0
    /\ left' = [left EXCEPT ![p] = @ - 1]
    /\ backend # "local"
    /\ \E k \in CloudKeys :
          LET d == CloudDeleteSecret(backend, remote, k)
          IN /\ remote' = d.remote
             /\ th' = [th EXCEPT ![p] = Ret(Call("DeleteSecret", "cloud", k, "", NilMap, 0), d.err)]
    /\ UNCHANGED <<localvars, clock, backend, supplied>>

\* GCP, Azure and AWS SetRotationPolicy: the policy goes into
\* metadata["rotation_policy"] of the secret, which must exist.
MetaSetRotationPolicy(b, rs, k, pol, t0, t1, t2) ==
    LET g == CloudGetSecret(b, rs, k)
        m == MapPut(g.secret[1].Metadata, "rotation_policy", PolicyMarshal(pol))
        w == CloudSetSecret(b, rs, k, g.secret[1].Value, m, t0, t1, t2)
    IN IF g.err # ""
       THEN [err |-> "failed to get secret", remote |-> rs, clock |-> t0]
       ELSE [err |-> "", remote |-> w.remote, clock |-> w.clock]

\* VaultProvider.SetRotationPolicy: the policy goes into the side record.
VaultSetRotationPolicy(rs, k, pol, t0) ==
    [err |-> "",
     remote |-> [rs EXCEPT !.rotation[k] = Some(PolicyMarshal(pol))],
     clock |-> t0]

\* SetRotationPolicy(ctx, key, policy)
CallCloudSetRotationPolicy(p) ==
    /\ Free(p)
    /\ left[p] > 0
    /\ left' = [left EXCEPT ![p] = @ - 1]
    /\ backend # "local"
    /\ \E k \in CloudKeys, pol \in Policies, t \in Readings(clock) :
          LET r == IF backend = "vault"
                   THEN VaultSetRotationPolicy(remote, k, pol, clock)
                   ELSE MetaSetRotationPolicy(backend, remote, k, pol, clock, t[1], t[2])
          IN /\ remote' = r.remote
             /\ clock' = r.clock
             /\ supplied' = IF r.err = "" THEN [supplied EXCEPT ![k] = Some(pol)]
                            ELSE supplied
             /\ th' = [th EXCEPT ![p] =
                         Ret(Call("SetRotationPolicy", "cloud", k, "", NilMap, 0), r.err)]
    /\ UNCHANGED <<localvars, backend>>

\* RotateSecret(ctx, key)
CallCloudRotateSecret(p) ==
    /\ Free(p)
    /\ left[p] > 0
    /\ left' = [left EXCEPT ![p] = @ - 1]
    /\ backend # "local"
    /\ \E k \in CloudKeys, t \in Readings(clock), def \in DefaultPolicies,
          n \in UNION {RandomNumberValues(pol) : pol \in Policies} :
          LET r == CASE backend \in {"gcp", "azure"} ->
                          GcpRotateSecret(backend, remote, k, clock, t, def)
                     [] backend = "aws" -> AwsRotateSecret(remote, k, clock, t[1], n)
                     [] OTHER -> VaultRotateSecret(remote, k, clock, n)
          IN /\ remote' = r.remote
             /\ clock' = r.clock
             /\ th' = [th EXCEPT ![p] =
                         [Ret(Call("RotateSecret", "cloud", k, "", NilMap, 0), r.err)
                            EXCEPT !.now1 = t[1], !.out = Some(def)]]
    /\ UNCHANGED <<localvars, backend, supplied>>

\* One caller of a remote backend.
InitCloud ==
    /\ files = [p \in Paths |-> None]
    /\ ring = [n \in KeyNames |-> IF n = "master" THEN Some(1) ELSE None]
    /\ nkeys = 1
    /\ clock = 0
    /\ mu = ""
    /\ th = [p \in Threads |-> Idle]
    /\ nsets = [k \in Keys |-> 0]
    /\ backend \in CloudBackends
    /\ remote = NoRemote
    /\ supplied = [k \in Keys |-> None]
    /\ schemas = NoSchemas
    /\ backup = NoBackup
    /\ target = NoTarget
    /\ left = [p \in Threads |-> IF p = "t1" THEN MaxCloudCalls ELSE 0]

NextCloud ==
    \E p \in Threads :
        \/ CallCloudSetSecret(p)
        \/ CallCloudDeleteSecret(p)
        \/ CallCloudSetRotationPolicy(p)
        \/ CallCloudRotateSecret(p)

SpecCloud == InitCloud /\ [][NextCloud]_vars

---------------------------------------------------------------------------
(* Vocabulary of the rotation properties.                                  *)

\* The backends whose RotateSecret checks the due date.
GatedBackends == {"gcp", "azure"}

\* Key k is stored in rs and carries a rotation policy in its metadata.
HasStoredPolicy(rs, k) ==
    /\ rs.secrets[k] # None
    /\ MapHas(UnmarshalMap(rs.secrets[k][1].data.metadata), "rotation_policy")

\* That policy.
StoredPolicy(rs, k) ==
    PolicyUnmarshal(MapGet(UnmarshalMap(rs.secrets[k][1].data.metadata),
                           "rotation_policy"))

\* The value, the metadata and the number of versions of key k in rs.
ValueOf(rs, k) == rs.secrets[k][1].data.value
MetadataOf(rs, k) == UnmarshalMap(rs.secrets[k][1].data.metadata)
VersionsOf(rs, k) == rs.secrets[k][1].nver

\* The policy RotateSecret of backend b finds for key k in rs, if any.
PolicyInForce(b, rs, k) ==
    IF b = "vault"
    THEN IF rs.rotation[k] = None THEN None
         ELSE Some(PolicyUnmarshal(rs.rotation[k][1]))
    ELSE IF HasStoredPolicy(rs, k) THEN Some(StoredPolicy(rs, k)) ELSE None

\* Thread p has returned from RotateSecret, in whatever backend, for a key
\* that was stored with a policy; due tells whether the rotation was due at
\* the time of the call.
RotateReturned(p, due) ==
    /\ Returned(p, "RotateSecret")
    /\ Before(p).remote.secrets[th[p].key] # None
    /\ PolicyInForce(backend, Before(p).remote, th[p].key) # None
    /\ due = (th[p].now1 >=
                PolicyInForce(backend, Before(p).remote, th[p].key)[1].NextRotation.wall)

---------------------------------------------------------------------------
(* C14  Due-date gating.  RotateSecret on a secret whose policy has        *)
(* nextRotation after the current time returns success and leaves the      *)
(* value, the metadata (no previous_value appears) and the version of the  *)
(* secret unchanged, in every backend.                                     *)

C14_NotDueNoOp ==
    \A p \in Threads :
       RotateReturned(p, FALSE) =>
          /\ th[p].res = ""
          /\ remote = Before(p).remote
          /\ ValueOf(remote, th[p].key) = ValueOf(Before(p).remote, th[p].key)
          /\ VersionsOf(remote, th[p].key) = VersionsOf(Before(p).remote, th[p].key)
          /\ MapHas(MetadataOf(remote, th[p].key), "previous_value")
                = MapHas(MetadataOf(Before(p).remote, th[p].key), "previous_value")

---------------------------------------------------------------------------
(* C15  Due rotation.  When a rotation is due (now >= nextRotation),       *)
(* RotateSecret (GCP, Azure) replaces the value, by the output of the      *)
(* custom generator when the policy was set with one; afterwards           *)
(* metadata["previous_value"] is the value the secret had just before the  *)
(* rotation, and every other metadata entry is carried forward.            *)

\* The metadata entries a rotation writes.
RotationEntries == {"previous_value", "last_rotation", "next_rotation"}

\* Every entry of m0 that a rotation does not write is an entry of m1.
CarriedForward(m0, m1) ==
    \A e \in m0.kv : e[1] \notin RotationEntries => e \in m1.kv

C15_DueRotation ==
    \A p \in Threads :
       (RotateReturned(p, TRUE) /\ backend \in GatedBackends /\ th[p].res = "") =>
          LET k == th[p].key
              old == Before(p).remote
          IN /\ ValueOf(remote, k) # ValueOf(old, k)
             /\ (supplied[k] # None /\ supplied[k][1].CustomGenerator)
                   => ValueOf(remote, k) = CustomValue
             /\ MapHas(MetadataOf(remote, k), "previous_value")
             /\ MapGet(MetadataOf(remote, k), "previous_value") = ValueOf(old, k)
             /\ CarriedForward(MetadataOf(old, k), MetadataOf(remote, k))

---------------------------------------------------------------------------
(* C16  Generated value.  When a rotation is due and the policy has no     *)
(* custom generator, the new value has exactly policy.length characters,   *)
(* all of the named character set (numeric 0-9, hex 0-9a-f, ascii '!'..'~',*)
(* any other name alphanumeric).                                           *)

NumericChars == {"0", "1", "2", "3", "4", "5", "6", "7", "8", "9"}
HexChars == NumericChars \cup {"a", "b", "c", "d", "e", "f"}
AlphanumericChars ==
    NumericChars \cup
    {"a", "b", "c", "d", "e", "f", "g", "h", "i", "j", "k", "l", "m",
     "n", "o", "p", "q", "r", "s", "t", "u", "v", "w", "x", "y", "z",
     "A", "B", "C", "D", "E", "F", "G", "H", "I", "J", "K", "L", "M",
     "N", "O", "P", "Q", "R", "S", "T", "U", "V", "W", "X", "Y", "Z"}
AsciiChars == AlphanumericChars \cup {"!", "#", "$", "%", "&", "*", "+", "-", ".", "~"}

\* The characters of the character set of that name.
CharsOf(name) ==
    CASE name = "numeric" -> NumericChars
      [] name = "hex" -> HexChars
      [] name = "ascii" -> AsciiChars
      [] OTHER -> AlphanumericChars

\* Thread p has returned from a RotateSecret that succeeded and was due (a
\* backend without a due-date check rotates at every call), for a key stored
\* with a policy pol.
Rotated(p, pol) ==
    /\ Returned(p, "RotateSecret")
    /\ th[p].res = ""
    /\ Before(p).remote.secrets[th[p].key] # None
    /\ PolicyInForce(backend, Before(p).remote, th[p].key) = Some(pol)
    /\ th[p].now1 >= pol.NextRotation.wall

C16_GeneratedValue ==
    \A p \in Threads : \A pol \in Policies :
       (/\ Rotated(p, pol)
        /\ ~(supplied[th[p].key] # None /\ supplied[th[p].key][1].CustomGenerator))
       => LET v == ValueOf(remote, th[p].key)
          IN /\ Len(v) = pol.Length
             /\ \A i \in 1 .. Len(v) : v[i] \in CharsOf(pol.CharacterSet)

---------------------------------------------------------------------------
(* C17  Rotation times.  After every successful due rotation (GCP, Azure)  *)
(* the recorded times satisfy next_rotation = last_rotation + interval:    *)
(* both come from the one instant of the rotation.                         *)

C17_RotationTimes ==
    \A p \in Threads : \A pol \in Policies :
       (Rotated(p, pol) /\ backend \in GatedBackends) =>
          LET m == MetadataOf(remote, th[p].key)
          IN /\ MapHas(m, "last_rotation")
             /\ MapHas(m, "next_rotation")
             /\ MapGet(m, "next_rotation") = MapGet(m, "last_rotation") + pol.Interval

---------------------------------------------------------------------------
(* C18  A rotation advances the due date.  When RotateSecret (GCP, Azure)  *)
(* has just rotated a secret at time t under a policy of interval I, a     *)
(* RotateSecret that follows at a time before t + I changes nothing: of    *)
(* two back-to-back calls at most one rotates.                             *)

C18_RotatesAtMostOnce ==
    [][\A p \in Threads : \A pol \in Policies :
          (/\ Rotated(p, pol)
           /\ backend \in GatedBackends
           /\ remote # Before(p).remote
           /\ th'[p].op = "RotateSecret"
           /\ th'[p].pc = "ret"
           /\ th'[p].pre = Some([files |-> files, ring |-> ring, remote |-> remote])
           /\ th'[p].now1 < th[p].now1 + pol.Interval)
          => remote' = remote]_vars

---------------------------------------------------------------------------
(* C19  No policy.  In every backend, RotateSecret on a stored secret that *)
(* has no rotation policy returns a policy-missing error and leaves the    *)
(* value, the metadata and the version of the secret unchanged: it neither *)
(* rotates under an implicit policy nor fails abnormally.                  *)

PolicyMissingErrors == {"failed to get rotation policy"}

C19_NoPolicyError ==
    \A p \in Threads :
       (/\ Returned(p, "RotateSecret")
        /\ Before(p).remote.secrets[th[p].key] # None
        /\ PolicyInForce(backend, Before(p).remote, th[p].key) = None)
       => /\ th[p].res \in PolicyMissingErrors
          /\ remote = Before(p).remote

---------------------------------------------------------------------------
(* Schemas (internal/providers/schema.go) and SetSecret of the plain-JSON  *)
(* provider for a secret that names one.                                   *)

MaxSchemaCalls == 3   \* calls one caller makes in a run with schemas

FieldNames == {"port"}
DigitsPattern == "^[0-9]+$"

\* SchemaField: of the limits at most one is set.
SchemaFields ==
    {[Type |-> ty, Required |-> r, MinLen |-> c[1], MaxLen |-> c[2],
      Pattern |-> c[3], Enum |-> c[4]] :
        ty \in {"number", "string"}, r \in BOOLEAN,
        c \in {<<0, 0, "", <<>>>>, <<5, 0, "", <<>>>>, <<0, 4, "", <<>>>>,
               <<0, 0, DigitsPattern, <<>>>>, <<0, 0, "", <<"8080">>>>}}

\* Schema: the schema files a caller hands to `schema add`; Fields maps a
\* field name to its SchemaField.
SchemaFiles ==
    {[Name |-> "svc", Version |-> "1", Fields |-> [n \in ns |-> f]] :
        ns \in SUBSET FieldNames, f \in SchemaFields}

\* The metadata of the secrets set with a schema.
SchemaMetas ==
    {NilMap, EnvProd, MkMap({<<"port", "not-a-number">>}), MkMap({<<"port", "8080">>})}

\* len(value) of the metadata values in use.
StrLen(v) ==
    CASE v = "not-a-number" -> 12
      [] v = "8080" -> 4
      [] v = "prod" -> 4
      [] OTHER -> 0

\* regexp.MustCompile(pattern).MatchString(value), for the pattern in use.
MatchString(pattern, v) ==
    IF pattern = DigitsPattern THEN v \in {"8080"} ELSE TRUE

\* The texts of the validation errors, which name the field.
ErrMissing(name) ==
    IF name = "port" THEN "required field port is missing"
    ELSE "required field env is missing"
ErrTooShort(name) ==
    IF name = "port" THEN "field port is too short" ELSE "field env is too short"
ErrTooLong(name) ==
    IF name = "port" THEN "field port is too long" ELSE "field env is too long"
ErrPattern(name) ==
    IF name = "port" THEN "field port does not match pattern"
    ELSE "field env does not match pattern"
ErrEnum(name) ==
    IF name = "port" THEN "field port must be one of" ELSE "field env must be one of"

\* validateField: length bounds, pattern, enum; field.Type is not read.
validateField(name, value, field) ==
    IF field.MinLen > 0 /\ StrLen(value) < field.MinLen THEN ErrTooShort(name)
    ELSE IF field.MaxLen > 0 /\ StrLen(value) > field.MaxLen THEN ErrTooLong(name)
    ELSE IF field.Pattern # "" /\ ~MatchString(field.Pattern, value) THEN ErrPattern(name)
    ELSE IF Len(field.Enum) > 0 /\ \A i \in 1 .. Len(field.Enum) : field.Enum[i] # value
    THEN ErrEnum(name)
    ELSE ""

\* ValidateSecret: the errors it can return (a map is ranged over in any
\* order, and the first error found is returned); {""} when there is none.
ValidateSecret(secret, schema) ==
    LET missing == {ErrMissing(n) : n \in {x \in DOMAIN schema.Fields :
                        /\ schema.Fields[x].Required
                        /\ ~MapHas(secret.Metadata, x)}}
        wrong == {validateField(e[1], e[2], schema.Fields[e[1]]) :
                    e \in {x \in secret.Metadata.kv : x[1] \in DOMAIN schema.Fields}} \ {""}
    IN IF missing # {} THEN missing
       ELSE IF wrong # {} THEN wrong
       ELSE {""}

\* `schema add <name> --file <file>`: the file is parsed, checked for a name,
\* a version and at least one field, and copied to schemas/<name>.json.
SchemaAdd(p) ==
    /\ Free(p)
    /\ Start(p)
    /\ mu = ""
    /\ \E name \in SchemaNames, schema \in SchemaFiles :
          LET c == Call("SchemaAdd", "schema_add", name, "", NilMap, 0)
              err == IF schema.Name = "" THEN "schema name is required"
                     ELSE IF schema.Version = "" THEN "schema version is required"
                     ELSE IF DOMAIN schema.Fields = {}
                     THEN "schema must define at least one field"
                     ELSE ""
          IN /\ schemas' = IF err = "" THEN [schemas EXCEPT ![name] = Some(schema)]
                           ELSE schemas
             /\ th' = [th EXCEPT ![p] = Ret(c, err)]
    /\ UNCHANGED <<files, ring, nkeys, clock, mu, nsets, cloudvars>>

\* `schema delete <name>`: os.Remove of schemas/<name>.json.
SchemaDelete(p) ==
    /\ Free(p)
    /\ Start(p)
    /\ \E name \in SchemaNames :
          LET c == Call("SchemaDelete", "schema_delete", name, "", NilMap, 0)
          IN IF schemas[name] = None
             THEN /\ th' = [th EXCEPT ![p] = Ret(c, "schema not found")]
                  /\ UNCHANGED schemas
             ELSE /\ schemas' = [schemas EXCEPT ![name] = None]
                  /\ th' = [th EXCEPT ![p] = Ret(c, "")]
    /\ UNCHANGED <<files, ring, nkeys, clock, mu, nsets, cloudvars>>

\* providers.LoadSchema(schemaPath)
LoadSchema(ss, name) ==
    IF ss[name] = None THEN [err |-> "failed to read schema file", schema |-> None]
    ELSE [err |-> "", schema |-> ss[name]]

\* LocalProvider.SetSecret of the plain provider for a secret that names a
\* schema: &providers.Secret{Name, Value, Metadata, Schema}.  The cause a
\* returned error wraps is kept in out.
PlainSetSecretSchema(p) ==
    /\ Free(p)
    /\ Start(p)
    /\ mu = ""
    /\ \E name \in Keys, v \in Values, m \in SchemaMetas, sn \in SchemaNames :
       \E t \in Later(clock) :
          LET s == [PlainLiteral(name, v) EXCEPT !.Metadata = m, !.Schema = sn]
              l == LoadSchema(schemas, sn)
              c == [Call("PlainSetSecret", "plain_set", name, v, m, 0)
                      EXCEPT !.schema = sn]
          IN IF l.err # ""
             THEN /\ th' = [th EXCEPT ![p] =
                              [Ret(c, "failed to load schema") EXCEPT !.out = Some(l.err)]]
                  /\ UNCHANGED <<files, clock>>
             ELSE \E verr \in ValidateSecret(s, l.schema[1]) :
                  IF verr # ""
                  THEN /\ th' = [th EXCEPT ![p] =
                                   [Ret(c, "secret validation failed")
                                      EXCEPT !.out = Some(verr)]]
                       /\ UNCHANGED <<files, clock>>
                  ELSE IF PlainValidate(s) # ""
                  THEN /\ th' = [th EXCEPT ![p] = Ret(c, "invalid secret")]
                       /\ UNCHANGED <<files, clock>>
                  ELSE /\ files' = [files EXCEPT ![plainSecretPath(name)] =
                                      Some([schema |-> sn] @@ PlainMarshal(PlainStamp(s, t)))]
                       /\ clock' = t
                       /\ th' = [th EXCEPT ![p] = Ret(c, "")]
    /\ UNCHANGED <<ring, nkeys, mu, nsets, cloudvars, schemas>>

\* One caller of the plain-JSON provider and of the schema command.
InitSchema ==
    Fresh /\ left = [p \in Threads |-> IF p = "t1" THEN MaxSchemaCalls ELSE 0]

NextSchema ==
    \E p \in Threads :
        \/ SchemaAdd(p)
        \/ SchemaDelete(p)
        \/ PlainSetSecretSchema(p)
        \/ PlainDeleteSecret(p)

SpecSchema == InitSchema /\ [][NextSchema]_vars

---------------------------------------------------------------------------
(* C20  Schema type check.  SetSecret of a secret that names a schema      *)
(* declaring field port of type number, with a value and metadata port =   *)
(* "not-a-number", is rejected with a validation error that names field    *)
(* port, and nothing is written: the record stored under that name, if     *)
(* any, is unchanged.                                                      *)

\* The validation errors that name field port.
PortErrors ==
    {ErrMissing("port"), ErrTooShort("port"), ErrTooLong("port"),
     ErrPattern("port"), ErrEnum("port")}

C20_SchemaTypeCheck ==
    \A p \in Threads :
       (/\ Returned(p, "PlainSetSecret")
        /\ th[p].schema # ""
        /\ th[p].value # ""
        /\ schemas[th[p].schema] # None
        /\ "port" \in DOMAIN schemas[th[p].schema][1].Fields
        /\ schemas[th[p].schema][1].Fields["port"].Type = "number"
        /\ MapHas(th[p].meta, "port")
        /\ MapGet(th[p].meta, "port") = "not-a-number")
       => /\ th[p].res = "secret validation failed"
          /\ th[p].out # None
          /\ th[p].out[1] \in PortErrors
          /\ files = Before(p).files

---------------------------------------------------------------------------
(* Schema.Validate (internal/schema) and providers.ValidateSecret applied  *)
(* to values of several shapes.                                            *)

MaxValidateCalls == 2   \* validations one caller runs

\* A value of a map[string]interface{}: its dynamic type and its text.
TypedValues ==
    {[t |-> "string", v |-> "8080"], [t |-> "string", v |-> "not-a-number"],
     [t |-> "number", v |-> "8080"], [t |-> "bool", v |-> "true"]}

\* The maps Schema.Validate is given: field name -> typed value.
ValueNames == {"port", "env"}
TypedMaps == UNION {[ns -> TypedValues] : ns \in SUBSET ValueNames}

\* schema.Field: MinLength and MaxLength are pointers, <<>> when nil.
TypedFields ==
    {[Type |-> ty, Required |-> r, Pattern |-> c[1], MinLength |-> c[2],
      MaxLength |-> c[3], Enum |-> c[4]] :
        ty \in {"string", "number", "boolean", "password"}, r \in BOOLEAN,
        c \in {<<"", None, None, <<>>>>, <<"", Some(5), None, <<>>>>,
               <<"", None, Some(4), <<>>>>, <<DigitsPattern, None, None, <<>>>>,
               <<"", None, None, <<"8080">>>>}}

\* schema.Schema with the one declared field port.
TypedSchemas ==
    {[Name |-> "svc", Version |-> "1", Fields |-> [n \in {"port"} |-> f]] :
        f \in TypedFields}

\* Field.validate: the type first, then for a string its length, pattern
\* and enum.
fieldValidate(f, val) ==
    IF f.Type \in {"string", "password"}
    THEN IF val.t # "string" THEN "expected string"
         ELSE IF f.MinLength # None /\ StrLen(val.v) < f.MinLength[1]
         THEN "string length is less than minimum"
         ELSE IF f.MaxLength # None /\ StrLen(val.v) > f.MaxLength[1]
         THEN "string length is greater than maximum"
         ELSE IF f.Pattern # "" /\ ~MatchString(f.Pattern, val.v)
         THEN "value does not match pattern"
         ELSE IF Len(f.Enum) > 0 /\ \A i \in 1 .. Len(f.Enum) : f.Enum[i] # val.v
         THEN "value must be one of"
         ELSE ""
    ELSE IF f.Type = "number"
    THEN IF val.t # "number" THEN "expected number" ELSE ""
    ELSE IF f.Type = "boolean"
    THEN IF val.t # "bool" THEN "expected boolean" ELSE ""
    ELSE ""

ErrMissingRequired(name) ==
    IF name = "port" THEN "missing required field: port"
    ELSE "missing required field: env"
ErrUnknownField(name) ==
    IF name = "port" THEN "unknown field: port" ELSE "unknown field: env"
ErrInvalidField(name) ==
    IF name = "port" THEN "invalid field port" ELSE "invalid field env"

\* Schema.Validate: the errors it can return (the maps are ranged over in
\* any order); {""} when there is none.
SchemaValidate(s, value) ==
    LET missing == {ErrMissingRequired(n) :
                      n \in {x \in DOMAIN s.Fields :
                               s.Fields[x].Required /\ x \notin DOMAIN value}}
        wrong == {IF n \notin DOMAIN s.Fields THEN ErrUnknownField(n)
                  ELSE IF fieldValidate(s.Fields[n], value[n]) # ""
                  THEN ErrInvalidField(n)
                  ELSE "" : n \in DOMAIN value} \ {""}
    IN IF missing # {} THEN missing
       ELSE IF wrong # {} THEN wrong
       ELSE {""}

\* s.Validate(value) is called.
CallSchemaValidate(p) ==
    /\ Free(p)
    /\ Start(p)
    /\ \E s \in TypedSchemas, value \in TypedMaps :
       \E err \in SchemaValidate(s, value) :
          th' = [th EXCEPT ![p] =
                   [Ret(Call("SchemaValidate", "validate", "", "", NilMap, 0), err)
                      EXCEPT !.sdata = Some(s), !.out = Some(value)]]
    /\ UNCHANGED <<shared, cloudvars, schemas>>

\* The metadata providers.ValidateSecret is given here.
ValidateMetas == SchemaMetas \cup {MkMap({<<"port", "8080">>, <<"env", "prod">>})}

\* providers.ValidateSecret(secret, schema) is called; the schema may be nil.
CallValidateSecret(p) ==
    /\ Free(p)
    /\ Start(p)
    /\ \E s \in {None} \cup {Some(x) : x \in SchemaFiles}, m \in ValidateMetas :
       \E err \in (IF s = None THEN {""}
                   ELSE ValidateSecret([PlainLiteral("a", "v1") EXCEPT !.Metadata = m],
                                       s[1])) :
          th' = [th EXCEPT ![p] =
                   [Ret(Call("ValidateSecret", "validate", "a", "v1", m, 0), err)
                      EXCEPT !.sdata = s]]
    /\ UNCHANGED <<shared, cloudvars, schemas>>

InitValidate ==
    Fresh /\ left = [p \in Threads |-> IF p = "t1" THEN MaxValidateCalls ELSE 0]

NextValidate ==
    \E p \in Threads :
        \/ CallSchemaValidate(p)
        \/ CallValidateSecret(p)

SpecValidate == InitValidate /\ [][NextValidate]_vars

---------------------------------------------------------------------------
(* C21  Unknown fields are accepted.  A value that has every required      *)
(* field and whose declared fields satisfy their rules validates           *)
(* successfully, whatever undeclared fields it carries besides; this is    *)
(* stated of Schema.Validate and of providers.ValidateSecret.              *)

\* The typed map value meets every rule schema s declares.
MeetsSchema(s, value) ==
    \A n \in DOMAIN s.Fields :
       /\ s.Fields[n].Required => n \in DOMAIN value
       /\ n \in DOMAIN value => fieldValidate(s.Fields[n], value[n]) = ""

\* The metadata m meets every rule schema s declares.
MeetsSecretSchema(s, m) ==
    \A n \in DOMAIN s.Fields :
       /\ s.Fields[n].Required => MapHas(m, n)
       /\ MapHas(m, n) => validateField(n, MapGet(m, n), s.Fields[n]) = ""

C21_UnknownFieldsAccepted ==
    \A p \in Threads :
       /\ (Returned(p, "SchemaValidate") /\ MeetsSchema(th[p].sdata[1], th[p].out[1]))
             => th[p].res = ""
       /\ (Returned(p, "ValidateSecret") /\ th[p].sdata # None
             /\ MeetsSecretSchema(th[p].sdata[1], th[p].meta))
             => th[p].res = ""

---------------------------------------------------------------------------
(* Search of the plain-JSON provider (internal/providers/local):           *)
(* ListSecrets, SearchSecrets, matchesSearch, over secrets with tags.      *)

MaxSearchCalls == 3   \* calls one caller makes in a run with searches

\* Secret.Tags and SearchOptions.Tags
TagLists == {<<>>, <<"x">>, <<"y">>, <<"x", "y">>, <<"y", "x">>}

\* SearchOptions: a zero CreatedAfter is <<>>.
SearchOpts ==
    {[Schema |-> sn, Tags |-> tags, CreatedAfter |-> ca] :
        sn \in {"", "svc"}, tags \in TagLists,
        ca \in {None} \cup {Some(UnmarshalTime(c)) : c \in {MaxClock}}}

\* json.Unmarshal of a secret file of the plain provider: a field left out
\* of the text keeps its zero value.  A file that is not such a text fails.
PlainUnmarshal(blob) ==
    IF blob.kind # "json" THEN [err |-> "failed to unmarshal secret", secret |-> None]
    ELSE [err |-> "",
          secret |-> Some(
             [Name |-> blob.name, Value |-> blob.value,
              Metadata |-> IF "metadata" \in DOMAIN blob THEN MkMap(blob.metadata)
                           ELSE NilMap,
              Tags |-> IF "tags" \in DOMAIN blob THEN blob.tags ELSE <<>>,
              Schema |-> IF "schema" \in DOMAIN blob THEN blob.schema ELSE "",
              CreatedAt |-> Some(UnmarshalTime(blob.created_at)),
              UpdatedAt |-> Some(UnmarshalTime(blob.updated_at))])]

\* ioutil.ReadDir: the .json files of the secrets directory, by name.
PlainDirOrder == <<"a.json", "b.json">>

\* LocalProvider.ListSecrets of the plain provider: every .json file, read
\* and parsed; the first failure ends the listing.
RECURSIVE PlainListFrom(_, _)
PlainListFrom(fs, i) ==
    IF i > Len(PlainDirOrder) THEN [err |-> "", secrets |-> <<>>]
    ELSE IF fs[PlainDirOrder[i]] = None THEN PlainListFrom(fs, i + 1)
    ELSE LET u == PlainUnmarshal(fs[PlainDirOrder[i]][1])
             rest == PlainListFrom(fs, i + 1)
         IN IF u.err # "" THEN [err |-> u.err, secrets |-> <<>>]
            ELSE IF rest.err # "" THEN rest
            ELSE [err |-> "", secrets |-> <<u.secret[1]>> \o rest.secrets]

PlainListSecrets(fs) == PlainListFrom(fs, 1)

\* The tag loop of matchesSearch: found is declared before the loop over the
\* requested tags and is not reset between them.
RECURSIVE matchesTags(_, _, _, _)
matchesTags(tags, secretTags, i, found) ==
    IF i > Len(tags) THEN TRUE
    ELSE LET f == found \/ \E j \in 1 .. Len(secretTags) : secretTags[j] = tags[i]
         IN IF ~f THEN FALSE ELSE matchesTags(tags, secretTags, i + 1, f)

\* matchesSearch(secret, opts)
matchesSearch(secret, opts) ==
    IF opts.Schema # "" /\ secret.Schema # opts.Schema THEN FALSE
    ELSE IF Len(opts.Tags) > 0 /\ ~matchesTags(opts.Tags, secret.Tags, 1, FALSE)
    THEN FALSE
    ELSE IF opts.CreatedAfter # None
            /\ secret.CreatedAt[1].wall < opts.CreatedAfter[1].wall
    THEN FALSE
    ELSE TRUE

\* append(results, secret) for each listed secret that matches.
RECURSIVE FilterMatches(_, _)
FilterMatches(secrets, opts) ==
    IF secrets = <<>> THEN <<>>
    ELSE (IF matchesSearch(Head(secrets), opts) THEN <<Head(secrets)>> ELSE <<>>)
         \o FilterMatches(Tail(secrets), opts)

\* LocalProvider.SearchSecrets of the plain provider
PlainSearchSecrets(fs, opts) ==
    LET l == PlainListSecrets(fs)
    IN IF l.err # "" THEN [err |-> l.err, secrets |-> <<>>]
       ELSE [err |-> "", secrets |-> FilterMatches(l.secrets, opts)]

\* SetSecret of the plain provider for &providers.Secret{Name, Value, Tags}:
\* no schema is named, so the schema branch is not taken.
PlainSetSecretTags(p) ==
    /\ Free(p)
    /\ Start(p)
    /\ mu = ""
    /\ \E name \in Keys, v \in Values, tags \in TagLists :
       \E t \in Later(clock) :
          LET s == [PlainLiteral(name, v) EXCEPT !.Tags = tags]
              c == [Call("PlainSetSecret", "plain_set", name, v, NilMap, 0)
                      EXCEPT !.keys = tags]
              text == PlainMarshal(PlainStamp(s, t))
          IN IF PlainValidate(s) # ""
             THEN /\ th' = [th EXCEPT ![p] = Ret(c, "invalid secret")]
                  /\ UNCHANGED <<files, clock>>
             ELSE /\ files' = [files EXCEPT ![plainSecretPath(name)] =
                                  Some(IF tags = <<>> THEN text
                                       ELSE [tags |-> tags] @@ text)]
                  /\ clock' = t
                  /\ th' = [th EXCEPT ![p] = Ret(c, "")]
    /\ UNCHANGED <<ring, nkeys, mu, nsets, cloudvars, schemas>>

\* SearchSecrets(ctx, opts) is called; ListSecrets holds the read lock.
CallPlainSearchSecrets(p) ==
    /\ Free(p)
    /\ Start(p)
    /\ mu = ""
    /\ \E opts \in SearchOpts :
          LET r == PlainSearchSecrets(files, opts)
          IN th' = [th EXCEPT ![p] =
                      [Ret(Call("PlainSearchSecrets", "plain_search", "", "", NilMap, 0),
                           r.err)
                         EXCEPT !.sdata = Some(opts), !.out = Some(r.secrets)]]
    /\ UNCHANGED <<shared, cloudvars, schemas>>

InitSearch ==
    Fresh /\ left = [p \in Threads |-> IF p = "t1" THEN MaxSearchCalls ELSE 0]

NextSearch ==
    \E p \in Threads :
        \/ PlainSetSecretTags(p)
        \/ CallPlainSearchSecrets(p)

SpecSearch == InitSearch /\ [][NextSearch]_vars

---------------------------------------------------------------------------
(* C22  Tag search is set containment.  SearchSecrets with requested tags  *)
(* T (no schema, no date) returns exactly the stored secrets that carry    *)
(* every tag of T, in whatever order T lists them.                         *)

\* The elements of a sequence.
Elems(q) == {q[i] : i \in 1 .. Len(q)}

\* The names of the stored plain records that carry every tag of T.
CarryAll(fs, T) ==
    {n \in Keys :
        /\ fs[plainSecretPath(n)] # None
        /\ Elems(T) \subseteq Elems(PlainUnmarshal(fs[plainSecretPath(n)][1]).secret[1].Tags)}

C22_TagContainment ==
    \A p \in Threads :
       (/\ Returned(p, "PlainSearchSecrets")
        /\ th[p].res = ""
        /\ th[p].sdata[1].Schema = ""
        /\ th[p].sdata[1].CreatedAfter = None)
       => {x.Name : x \in Elems(th[p].out[1])} = CarryAll(files, th[p].sdata[1].Tags)

---------------------------------------------------------------------------
(* The encrypted LocalProvider over nested keys: its calls, each as one    *)
(* caller runs it from entry to return.                                    *)

MaxTreeCalls == 3   \* calls one caller makes in a run over nested keys

TreePaths == Paths \cup {".", "a/b"}
TreeKeys == {"a", "b", "a/b", "a/../b", ""}
Prefixes == {"", "a", "a/", "x"}

\* The entries directly under a directory.
Children(fs, path) == {c \in DOMAIN fs : Parent(c) = path /\ fs[c] # None}

\* os.MkdirAll: creates the missing directories of path, from the top.
RECURSIVE MkdirAll(_, _)
MkdirAll(fs, path) ==
    LET r == Resolve(fs, path)
    IN IF r.errno = ""
       THEN [err |-> IF IsDir(r.e) THEN "" ELSE "ENOTDIR", fs |-> fs]
       ELSE LET pm == MkdirAll(fs, Parent(path))
            IN IF pm.err # "" THEN [err |-> pm.err, fs |-> fs]
               ELSE [err |-> "", fs |-> [pm.fs EXCEPT ![path] = Some(DirEntry)]]

\* os.WriteFile: creates or truncates the file; the parent must be a
\* directory and path must not be one.
WriteFile(fs, path, blob) ==
    LET par == Resolve(fs, Parent(path))
        r == Resolve(fs, path)
    IN IF par.errno # "" THEN [err |-> par.errno, fs |-> fs]
       ELSE IF ~IsDir(par.e) THEN [err |-> "ENOTDIR", fs |-> fs]
       ELSE IF r.errno = "" /\ IsDir(r.e) THEN [err |-> "EISDIR", fs |-> fs]
       ELSE [err |-> "", fs |-> [fs EXCEPT ![path] = Some(blob)]]

\* A removal that reports success and leaves the entry where it is.
RemoveNothing(fs, path) ==
    LET r == Resolve(fs, path)
    IN IF r.errno # "" THEN [err |-> r.errno, fs |-> fs]
       ELSE [err |-> "", fs |-> fs]

\* os.Remove: removes a file or an empty directory.
Remove(fs, path) ==
    LET r == Resolve(fs, path)
    IN IF r.errno # "" THEN [err |-> r.errno, fs |-> fs]
       ELSE IF IsDir(r.e) /\ Children(fs, path) # {}
       THEN [err |-> "ENOTEMPTY", fs |-> fs]
       ELSE [err |-> "", fs |-> [fs EXCEPT ![path] = None]]

\* LocalProvider.SetSecret from entry to return: t1 and t2 are the readings
\* of its two time.Now() calls.
SetSecretFs(fs, rg, key, value, meta, t1, t2, nonce) ==
    LET g == GetSecret(fs, rg, key)
        s == NewSecret(IF g.err = "" THEN g.secret ELSE None, value, meta, t1, t2)
        v == Validate(s)
        e == Encrypt(rg, "master", Marshal(v.secret), nonce)
        path == getSecretPath(key)
        mk == MkdirAll(fs, Parent(path))
        w == WriteFile(mk.fs, path, e.blob[1])
    IN IF v.err # "" THEN [err |-> "invalid secret", fs |-> fs]
       ELSE IF e.err # "" THEN [err |-> "failed to encrypt secret", fs |-> fs]
       ELSE IF mk.err # "" THEN [err |-> "failed to create secret directory", fs |-> fs]
       ELSE IF w.err # "" THEN [err |-> "failed to write secret file", fs |-> mk.fs]
       ELSE [err |-> "", fs |-> w.fs]

\* LocalProvider.DeleteSecret: only ENOENT is reported as not found.
DeleteSecretFs(fs, key) ==
    LET r == Remove(fs, getSecretPath(key))
    IN IF r.err = "ENOENT" THEN [err |-> "secret not found", fs |-> fs]
       ELSE IF r.err # "" THEN [err |-> "failed to delete secret", fs |-> fs]
       ELSE [err |-> "", fs |-> r.fs]

\* The string filepath.Walk passes for the root itself, which
\* strings.TrimPrefix(path, secretsDir+"/") leaves as it is.
RootPath == "/secrets"

\* LocalProvider.ListSecrets from entry to return: Walk hands the error of a
\* missing root to the callback, which returns it; a root that is a file is
\* visited as a file.
ListSecretsWalk(fs, prefix) ==
    LET r == Resolve(fs, ".")
    IN IF r.errno # "" THEN [err |-> "failed to list secrets", keys |-> <<>>]
       ELSE IF IsFile(r.e)
       THEN [err |-> "",
             keys |-> IF HasPrefix(RootPath, prefix) THEN <<RootPath>> ELSE <<>>]
       ELSE [err |-> "", keys |-> ListSecrets(fs, prefix)]

\* secret.Metadata[k]: the zero value "" when k is absent.
Index(m, k) == IF MapHas(m, k) THEN MapGet(m, k) ELSE ""

\* The loop of SearchSecrets over the listed keys.
RECURSIVE SearchFrom(_, _, _, _)
SearchFrom(fs, rg, keys, query) ==
    IF keys = <<>> THEN <<>>
    ELSE LET g == GetSecret(fs, rg, Head(keys))
             rest == SearchFrom(fs, rg, Tail(keys), query)
         IN IF g.err # "" THEN rest
            ELSE IF \A e \in query.kv : Index(g.secret[1].Metadata, e[1]) = e[2]
            THEN <<g.secret[1]>> \o rest
            ELSE rest

\* LocalProvider.SearchSecrets
SearchSecrets(fs, rg, query) ==
    LET l == ListSecretsWalk(fs, "")
    IN IF l.err # "" THEN [err |-> l.err, secrets |-> <<>>]
       ELSE [err |-> "", secrets |-> SearchFrom(fs, rg, l.keys, query)]

\* The queries of SearchSecrets.
Queries == {NilMap, EnvProd, MkMap({<<"env", "">>}), MkMap({<<"env", "dev">>})}

\* SetSecret(ctx, key, value, metadata) of a provider that one thread calls:
\* no other call falls between its steps, and the call is one step.
TreeSetSecretOf(p, ks, vs, ms) ==
    /\ Free(p)
    /\ Start(p)
    /\ mu = ""
    /\ \E k \in ks, v \in vs, m \in ms, n \in Nonces :
       \E t1 \in Later(clock) : \E t2 \in Later(t1) :
          LET r == SetSecretFs(files, ring, k, v, m, t1, t2, n)
          IN /\ files' = r.fs
             /\ clock' = t2
             /\ th' = [th EXCEPT ![p] = Ret(Call("SetSecret", "tree", k, v, m, 0), r.err)]
    /\ UNCHANGED <<ring, nkeys, mu, nsets, cloudvars, schemas>>

TreeSetSecret(p) == TreeSetSecretOf(p, TreeKeys, {"", "v1"}, Metas)

\* DeleteSecret(ctx, key)
TreeDeleteSecret(p) ==
    /\ Free(p)
    /\ Start(p)
    /\ mu = ""
    /\ \E k \in TreeKeys :
          LET r == DeleteSecretFs(files, k)
          IN /\ files' = r.fs
             /\ th' = [th EXCEPT ![p] =
                         Ret(Call("DeleteSecret", "tree", k, "", NilMap, 0), r.err)]
    /\ UNCHANGED <<ring, nkeys, clock, mu, nsets, cloudvars, schemas>>

\* GetSecret(ctx, key)
TreeGetSecret(p) ==
    /\ Free(p)
    /\ Start(p)
    /\ mu = ""
    /\ \E k \in TreeKeys :
          LET r == GetSecret(files, ring, k)
          IN th' = [th EXCEPT ![p] =
                      [Ret(Call("GetSecret", "tree", k, "", NilMap, 0), r.err)
                         EXCEPT !.out = r.secret]]
    /\ UNCHANGED <<shared, cloudvars, schemas>>

\* ListSecrets(ctx, prefix); the prefix is kept in key.
TreeListSecrets(p) ==
    /\ Free(p)
    /\ Start(p)
    /\ mu = ""
    /\ \E prefix \in Prefixes :
          LET r == ListSecretsWalk(files, prefix)
          IN th' = [th EXCEPT ![p] =
                      [Ret(Call("ListSecrets", "tree", prefix, "", NilMap, 0), r.err)
                         EXCEPT !.keys = r.keys]]
    /\ UNCHANGED <<shared, cloudvars, schemas>>

\* SearchSecrets(ctx, query); the query is kept in meta.
TreeSearchSecrets(p) ==
    /\ Free(p)
    /\ Start(p)
    /\ mu = ""
    /\ \E query \in Queries :
          LET r == SearchSecrets(files, ring, query)
          IN th' = [th EXCEPT ![p] =
                      [Ret(Call("SearchSecrets", "tree", "", "", query, 0), r.err)
                         EXCEPT !.out = Some(r.secrets)]]
    /\ UNCHANGED <<shared, cloudvars, schemas>>

\* A provider made by New on an empty base directory; the secrets directory
\* may have been removed since.
InitTree ==
    /\ files \in {[p \in TreePaths |-> IF p = "." THEN root ELSE None] :
                    root \in {None, Some(DirEntry)}}
    /\ ring = [n \in KeyNames |-> IF n = "master" THEN Some(1) ELSE None]
    /\ nkeys = 1
    /\ clock = 0
    /\ mu = ""
    /\ th = [p \in Threads |-> Idle]
    /\ nsets = [k \in Keys |-> 0]
    /\ backend = "local"
    /\ remote = NoRemote
    /\ supplied = [k \in Keys |-> None]
    /\ schemas = NoSchemas
    /\ backup = NoBackup
    /\ target = NoTarget
    /\ left = [p \in Threads |-> IF p = "t1" THEN MaxTreeCalls ELSE 0]

NextTree ==
    \E p \in Threads :
        \/ TreeSetSecret(p)
        \/ TreeDeleteSecret(p)
        \/ TreeGetSecret(p)
        \/ TreeListSecrets(p)
        \/ TreeSearchSecrets(p)

SpecTree == InitTree /\ [][NextTree]_vars

---------------------------------------------------------------------------
(* C23  Metadata search.  SearchSecrets(query) returns exactly the         *)
(* readable stored secrets whose metadata maps every key of query to the   *)
(* queried value: a secret that lacks a queried key, or holds another      *)
(* value for it, is not returned; an empty query returns every readable    *)
(* secret.                                                                 *)

\* The files of the secrets directory that GetSecret reads with success.
Readable(fs, rg) ==
    {k \in Elems(ListSecrets(fs, "")) : GetSecret(fs, rg, k).err = ""}

\* Metadata m maps every key of query to the queried value.
MapsAll(m, query) ==
    \A e \in query.kv : MapHas(m, e[1]) /\ MapGet(m, e[1]) = e[2]

C23_MetadataSearch ==
    \A p \in Threads :
       (Returned(p, "SearchSecrets") /\ IsDir(files["."])) =>
          /\ th[p].res = ""
          /\ Elems(th[p].out[1]) =
                {GetSecret(files, ring, k).secret[1] :
                   k \in {x \in Readable(files, ring) :
                            MapsAll(GetSecret(files, ring, x).secret[1].Metadata,
                                    th[p].meta)}}

---------------------------------------------------------------------------
(* C24  Listing.  ListSecrets(prefix) returns, without error and each     *)
(* once, exactly the stored keys (the relative paths of the secret files,  *)
(* at any depth) that have prefix as a literal string prefix: all of them  *)
(* for the empty prefix, none for a prefix no key has, and no key that     *)
(* was deleted.                                                            *)

\* The relative paths at which a secret file is stored.
StoredPaths(fs) == {path \in DOMAIN fs \ {"."} : fs[path] # None /\ fs[path][1].kind = "aead"}

\* The listing thread p got is the stored keys under its prefix.
ListsByPrefix(p) ==
    /\ th[p].res = ""
    /\ Elems(th[p].keys) = {path \in StoredPaths(files) : HasPrefix(path, th[p].key)}
    /\ Len(th[p].keys) = Cardinality(Elems(th[p].keys))

C24_ListByPrefix ==
    \A p \in Threads : Returned(p, "ListSecrets") => ListsByPrefix(p)

\* The same for the calls made while the secrets directory is in place.
ListByPrefixUnderRoot ==
    \A p \in Threads :
       (Returned(p, "ListSecrets") /\ IsDir(files["."])) => ListsByPrefix(p)

\* A nested key is listed under the prefix of its directory, and a key
\* outside it is not.
ListedNested ==
    /\ Returned("t1", "ListSecrets")
    /\ th["t1"].key = "a/"
    /\ th["t1"].keys = <<"a/b">>
    /\ StoredPaths(files) = {"a/b", "b"}


---------------------------------------------------------------------------
(* C25  Listing without a root.  ListSecrets on a provider whose secrets   *)
(* directory does not exist returns an empty list and no error.            *)
C25_MissingRootListsEmpty ==
    \A p \in Threads :
       (Returned(p, "ListSecrets") /\ Before(p).files["."] = None) =>
          /\ th[p].res = ""
          /\ th[p].keys = <<>>

---------------------------------------------------------------------------
(* C26  Delete and not-found.  DeleteSecret on a stored key succeeds, and  *)
(* afterwards GetSecret on the key reports "secret not found" and the key  *)
(* is not listed.  DeleteSecret and GetSecret on a key that is not stored  *)
(* return "secret not found" and leave the store as it was.                *)

\* The key names a secret file of the store.
IsStored(fs, key) == getSecretPath(key) \in StoredPaths(fs)

C26_DeleteAndNotFound ==
    \A p \in Threads :
       /\ (Returned(p, "DeleteSecret") /\ IsStored(Before(p).files, th[p].key)) =>
             /\ th[p].res = ""
             /\ GetSecret(files, ring, th[p].key).err = "secret not found"
             /\ getSecretPath(th[p].key) \notin Elems(ListSecrets(files, ""))
       /\ ((Returned(p, "DeleteSecret") \/ Returned(p, "GetSecret"))
             /\ ~IsStored(Before(p).files, th[p].key)) =>
             /\ th[p].res = "secret not found"
             /\ files = Before(p).files

---------------------------------------------------------------------------
(* Metadata written over metadata: SetSecret and UpdateMetadata on one     *)
(* provider, with metadata that carries the entries ShareSecret adds.      *)

MaxMetaCalls == 3

\* Metadata maps passed to SetSecret and UpdateMetadata: ShareSecret passes
\* one with metadata["shared_from"] set, other callers pass any map.
SharedFromA == MkMap({<<"shared_from", "a">>})
SharedFromB == MkMap({<<"shared_from", "b">>})
ShareMetas == {NilMap, EnvProd, SharedFromA, SharedFromB}

\* LocalProvider.UpdateMetadata from entry to return.
UpdateMetadataFs(fs, rg, key, meta, t1, t2, nonce) ==
    LET g == GetSecret(fs, rg, key)
    IN IF g.err # "" THEN [err |-> g.err, fs |-> fs]
       ELSE SetSecretFs(fs, rg, key, g.secret[1].Value, meta, t1, t2, nonce)

MetaSetSecret(p) == TreeSetSecretOf(p, Keys, {"v1", "v2"}, ShareMetas)

\* UpdateMetadata(ctx, key, metadata)
MetaUpdateMetadata(p) ==
    /\ Free(p)
    /\ Start(p)
    /\ mu = ""
    /\ \E k \in Keys, m \in ShareMetas, n \in Nonces :
       \E t1 \in Later(clock) : \E t2 \in Later(t1) :
          LET r == UpdateMetadataFs(files, ring, k, m, t1, t2, n)
          IN /\ files' = r.fs
             /\ clock' = t2
             /\ th' = [th EXCEPT ![p] = Ret(Call("UpdateMetadata", "tree", k, "", m, 0), r.err)]
    /\ UNCHANGED <<ring, nkeys, mu, nsets, cloudvars, schemas>>

InitMeta ==
    /\ files = [p \in TreePaths |-> IF p = "." THEN Some(DirEntry) ELSE None]
    /\ ring = [n \in KeyNames |-> IF n = "master" THEN Some(1) ELSE None]
    /\ nkeys = 1
    /\ clock = 0
    /\ mu = ""
    /\ th = [p \in Threads |-> Idle]
    /\ nsets = [k \in Keys |-> 0]
    /\ backend = "local"
    /\ remote = NoRemote
    /\ supplied = [k \in Keys |-> None]
    /\ schemas = NoSchemas
    /\ backup = NoBackup
    /\ target = NoTarget
    /\ left = [p \in Threads |-> IF p = "t1" THEN MaxMetaCalls ELSE 0]

NextMeta ==
    \E p \in Threads :
        \/ MetaSetSecret(p)
        \/ MetaUpdateMetadata(p)

SpecMeta == InitMeta /\ [][NextMeta]_vars

---------------------------------------------------------------------------
(* C27  Reserved metadata.  A SetSecret or UpdateMetadata that returns     *)
(* success on an existing secret leaves that secret's rotation_policy,     *)
(* previous_value, last_rotation, next_rotation, shared_from, shared_at,   *)
(* synced_at and expires_at entries as they were.                          *)
ReservedKeys ==
    {"rotation_policy", "previous_value", "last_rotation", "next_rotation",
     "shared_from", "shared_at", "synced_at", "expires_at"}

\* The reserved entries of the record stored under key, if there is one.
ReservedEntries(fs, rg, key) ==
    LET g == GetSecret(fs, rg, key)
    IN IF g.err # "" THEN {}
       ELSE {pr \in g.secret[1].Metadata.kv : pr[1] \in ReservedKeys}

C27_ReservedKept ==
    \A p \in Threads :
       ((Returned(p, "SetSecret") \/ Returned(p, "UpdateMetadata")) /\ th[p].res = "") =>
          ReservedEntries(Before(p).files, Before(p).ring, th[p].key)
             \subseteq ReservedEntries(files, ring, th[p].key)

---------------------------------------------------------------------------
(* C28  Invalid input.  SetSecret with an empty key or an empty value      *)
(* returns an error and persists nothing: no file is created or modified,  *)
(* so the listing and every stored record are as they were.                *)
C28_InvalidInputPersistsNothing ==
    \A p \in Threads :
       (Returned(p, "SetSecret") /\ (th[p].key = "" \/ th[p].value = "")) =>
          /\ th[p].res # ""
          /\ files = Before(p).files

---------------------------------------------------------------------------
(* C29  Independent keys.  A SetSecret or DeleteSecret on key k1 leaves    *)
(* the record, with its version chain, and the listing of every other key  *)
(* string k2 as they were, and a SetSecret with a non-empty key and value, *)
(* which succeeds on an empty store, succeeds whatever other keys are      *)
(* stored; "a" and "a/b", and "a/../b" and "b", are such pairs.            *)

\* The record GetSecret returns for key, None when it returns an error.
RecordOf(fs, rg, key) == GetSecret(fs, rg, key).secret

\* Key is among the keys ListSecrets("") returns; no key on error.
Listed(fs, key) == key \in Elems(ListSecretsWalk(fs, "").keys)

C29_KeysIndependent ==
    \A p \in Threads :
       /\ (Returned(p, "SetSecret") \/ Returned(p, "DeleteSecret")) =>
             \A k2 \in TreeKeys \ {th[p].key} :
                /\ RecordOf(files, ring, k2) = RecordOf(Before(p).files, Before(p).ring, k2)
                /\ Listed(files, k2) = Listed(Before(p).files, k2)
       /\ (Returned(p, "SetSecret") /\ th[p].key # "" /\ th[p].value # "") =>
             th[p].res = ""

---------------------------------------------------------------------------
(* C30  RotateKey keeps the content.  One thread calls SetSecret, the      *)
(* other makes one call, a RotateKey.  When both have returned success,    *)
(* the record stored under the key of the first thread's last SetSecret is *)
(* the record that call wrote, also when the call completed after          *)
(* RotateKey had read the records.                                         *)

\* The record sealed in the file of key, whatever key it is sealed under.
SealedRecord(fs, key) == fs[getSecretPath(key)][1].sealed

C30_RotateKeepsContent ==
    (/\ Returned("t1", "SetSecret") /\ th["t1"].res = ""
     /\ Returned("t2", "RotateKey") /\ th["t2"].res = "")
    => /\ files[getSecretPath(th["t1"].key)] # None
       /\ SealedRecord(files, th["t1"].key) = th["t1"].enc[1].sealed

---------------------------------------------------------------------------
(* A reader beside a rotation: one thread writes secrets and rotates the   *)
(* key, the other calls GetSecret on the same provider.                    *)

MaxReadCalls == 2

\* GetSecret is called: it waits at p.mu.RLock() while a writer holds the lock.
CallGetSecret(p) ==
    /\ p = "t2"
    /\ Free(p)
    /\ Start(p)
    /\ \E k \in Keys :
          th' = [th EXCEPT ![p] = Call("GetSecret", "get_rlock", k, "", NilMap, 0)]
    /\ UNCHANGED <<shared, cloudvars, schemas>>

\* GetSecret under the read lock: ReadFile, Decrypt("master"), Unmarshal.
GetSecretRLocked(p) ==
    /\ th[p].pc = "get_rlock"
    /\ mu = ""
    /\ LET r == GetSecret(files, ring, th[p].key)
       IN th' = [th EXCEPT ![p] = [Ret(@, r.err) EXCEPT !.out = r.secret]]
    /\ UNCHANGED <<left, shared, cloudvars, schemas>>

ReadSetSecret(p) == p = "t1" /\ SetSecretOf(p, Keys, {"v1"}, {NilMap})

ReadRotateKey(p) == p = "t1" /\ CallRotateKey(p)

InitRead == Fresh /\ left = [p \in Threads |-> MaxReadCalls]

NextRead ==
    \E p \in Threads :
        \/ ReadSetSecret(p)
        \/ SetSecretBuild(p)
        \/ SetSecretWrite(p)
        \/ ReadRotateKey(p)
        \/ RotateKeyRead(p)
        \/ RotateKeyGenerate(p)
        \/ RotateKeyReEncrypt(p)
        \/ RotateKeyDeleteOld(p)
        \/ RenameKeyStore(p)
        \/ RenameKeyDelete(p)
        \/ CallGetSecret(p)
        \/ GetSecretRLocked(p)

SpecRead == InitRead /\ [][NextRead]_vars

---------------------------------------------------------------------------
(* C31  Readers beside a rotation.  While one thread writes secrets and    *)
(* then runs a RotateKey in which no step fails, a GetSecret of the other  *)
(* thread on a key whose file existed when the call was made returns       *)
(* success, with the record that file held or a later version of it: the   *)
(* read runs before the rotation takes the lock or after it has renamed    *)
(* master_new to master.                                                   *)

\* The record in the file of key when thread p made its call.
RecordAtCall(p) == Unmarshal(Before(p).files[getSecretPath(th[p].key)][1].sealed)

C31_ReadersSeeNoRotation ==
    \A p \in Threads :
       (Returned(p, "GetSecret") /\ Before(p).files[getSecretPath(th[p].key)] # None) =>
          /\ th[p].res = ""
          /\ RecordAtCall(p) \in Elems(Chain(th[p].out))

\* The call was made while the rotation held the lock, after it had
\* re-encrypted the file and deleted the old master key, and it returned
\* the secret.
C31_Witness ==
    /\ Returned("t2", "GetSecret")
    /\ th["t2"].res = ""
    /\ Before("t2").ring["master"] = None
    /\ Before("t2").files[getSecretPath(th["t2"].key)] # None
    /\ th["t2"].out = Some(RecordAtCall("t2"))
    /\ Returned("t1", "RotateKey")
    /\ th["t1"].res = ""

---------------------------------------------------------------------------
(* RotateKey over a keyring that can refuse an operation: keyring.Set,     *)
(* keyring.Get and keyring.Delete return an error and leave the keyring as *)
(* it was.  RotateKey returns at the first such error; the deferred        *)
(* Unlock releases the lock.                                               *)

MaxFailCalls == 3

\* GenerateKey("master_new") fails.
RotateKeyGenerateFails(p) ==
    /\ th[p].pc = "rot_read"
    /\ th[p].keys = <<>>
    /\ mu = ""
    /\ th' = [th EXCEPT ![p] = Ret(@, "failed to generate new master key")]
    /\ UNCHANGED <<left, shared, cloudvars, schemas>>

\* DeleteKey("master") fails after the loop has rewritten the files.
RotateKeyDeleteOldFails(p) ==
    /\ th[p].pc = "rot_enc"
    /\ DOMAIN th[p].sdata = {}
    /\ th' = [th EXCEPT ![p] = Ret(@, "failed to delete old master key")]
    /\ mu' = ""
    /\ UNCHANGED <<left, files, ring, nkeys, clock, nsets, cloudvars, schemas>>

\* RenameKey fails in GetKey("master_new") or in keyring.Set under "master".
RenameKeyStoreFails(p) ==
    /\ th[p].pc = "rot_rename"
    /\ th' = [th EXCEPT ![p] = Ret(@, "failed to rename new master key")]
    /\ mu' = ""
    /\ UNCHANGED <<left, files, ring, nkeys, clock, nsets, cloudvars, schemas>>

\* RenameKey fails in DeleteKey("master_new"), after the key was stored
\* under "master".
RenameKeyDeleteFails(p) ==
    /\ th[p].pc = "rot_rename_del"
    /\ th' = [th EXCEPT ![p] = Ret(@, "failed to rename new master key")]
    /\ mu' = ""
    /\ UNCHANGED <<left, files, ring, nkeys, clock, nsets, cloudvars, schemas>>

FailSetSecret(p) == SetSecretOf(p, Keys, {"v1"}, Metas)

InitFail == Fresh /\ left = [p \in Threads |-> IF p = "t1" THEN MaxFailCalls ELSE 0]

NextFail ==
    \E p \in Threads :
        \/ FailSetSecret(p)
        \/ SetSecretBuild(p)
        \/ SetSecretWrite(p)
        \/ CallRotateKey(p)
        \/ RotateKeyRead(p)
        \/ RotateKeyGenerate(p)
        \/ RotateKeyGenerateFails(p)
        \/ RotateKeyReEncrypt(p)
        \/ RotateKeyDeleteOld(p)
        \/ RotateKeyDeleteOldFails(p)
        \/ RenameKeyStore(p)
        \/ RenameKeyStoreFails(p)
        \/ RenameKeyDelete(p)
        \/ RenameKeyDeleteFails(p)

SpecFail == InitFail /\ [][NextFail]_vars

---------------------------------------------------------------------------
(* C32  A failed rotation.  When RotateKey has returned an error, every    *)
(* secret GetSecret returned before the call is still returned, with the   *)
(* same value and metadata.                                                *)

\* GetSecret returns for key what it returned in the store before.
StillReadable(fs0, rg0, fs, rg, key) ==
    LET g0 == GetSecret(fs0, rg0, key)
        g == GetSecret(fs, rg, key)
    IN g0.err = "" =>
          /\ g.err = ""
          /\ g.secret[1].Value = g0.secret[1].Value
          /\ SameEntries(g.secret[1].Metadata, g0.secret[1].Metadata)

C32_FailedRotationUsable ==
    \A p \in Threads :
       (Returned(p, "RotateKey") /\ th[p].res # "") =>
          \A k \in Keys : StillReadable(Before(p).files, Before(p).ring, files, ring, k)

---------------------------------------------------------------------------
(* C33  Key material.  With DeleteKey never called, in every state, also   *)
(* after a crash inside RotateKey, a New and a further RotateKey, the key  *)
(* each secret file is sealed under is stored in the keychain under the    *)
(* name master or master_new.                                              *)

\* The keys the keychain holds.
KeysHeld(rg) == {rg[n][1] : n \in {n \in KeyNames : rg[n] # None}}

C33_KeyMaterialKept ==
    \A path \in Paths :
       (files[path] # None /\ files[path][1].kind = "aead") =>
          files[path][1].key \in KeysHeld(ring)

---------------------------------------------------------------------------
(* KeychainImpl on its own: GenerateKey, Set, DeleteKey and RenameKey      *)
(* called one after the other by one process, which may stop inside        *)
(* RenameKey.                                                              *)

MaxRenameCalls == 3

\* The two writes of RenameKey, in their order: keyring.Set(newName, ...),
\* then DeleteKey(oldName).
RenameKeySteps(rg, oldName, newName, key, step) ==
    IF step = 1 THEN [err |-> "", ring |-> [rg EXCEPT ![newName] = Some(key)]]
    ELSE DeleteKey(rg, oldName)

\* GenerateKey(name)
KcGenerateKey(p) ==
    /\ Free(p)
    /\ Start(p)
    /\ \E name \in KeyNames :
          /\ ring' = GenerateKey(ring, name, nkeys + 1)
          /\ th' = [th EXCEPT ![p] = Ret(Call("GenerateKey", "kc", name, "", NilMap, 0), "")]
    /\ nkeys' = nkeys + 1
    /\ UNCHANGED <<files, clock, mu, nsets, cloudvars, schemas>>

\* DeleteKey(name)
KcDeleteKey(p) ==
    /\ Free(p)
    /\ Start(p)
    /\ \E name \in KeyNames :
          LET d == DeleteKey(ring, name)
          IN /\ ring' = d.ring
             /\ th' = [th EXCEPT ![p] = Ret(Call("DeleteKey", "kc", name, "", NilMap, 0), d.err)]
    /\ UNCHANGED <<files, nkeys, clock, mu, nsets, cloudvars, schemas>>

\* Bytes a caller hands to Set that no GenerateKey produced.
ForeignKey == -1

\* Set(name, key): the caller's bytes are stored under name, whatever they
\* are and whatever the name held.
KcSet(p) ==
    /\ Free(p)
    /\ Start(p)
    /\ \E name \in KeyNames, key \in (1 .. nkeys) \cup {ForeignKey} :
          /\ ring' = [ring EXCEPT ![name] = Some(key)]
          /\ th' = [th EXCEPT ![p] = Ret(Call("Set", "kc", name, "", NilMap, key), "")]
    /\ UNCHANGED <<files, nkeys, clock, mu, nsets, cloudvars, schemas>>

\* RenameKey(oldName, newName) up to the return of GetKey(oldName); the old
\* name is kept in key, the new one in value, the key bytes in ver.  The two
\* names may be the same.
CallRenameKey(p) ==
    /\ Free(p)
    /\ Start(p)
    /\ \E oldName \in KeyNames, newName \in KeyNames :
          LET k == GetKey(ring, oldName)
              c == Call("RenameKey", "ren_set", oldName, newName, NilMap, k.key)
          IN th' = [th EXCEPT ![p] = IF k.err # "" THEN Ret(c, k.err) ELSE c]
    /\ UNCHANGED <<shared, cloudvars, schemas>>

\* keyring.Set(k.serviceName, newName, encoded)
RenameKeySet(p) ==
    /\ th[p].pc = "ren_set"
    /\ ring' = RenameKeySteps(ring, th[p].key, th[p].value, th[p].ver, 1).ring
    /\ th' = [th EXCEPT ![p].pc = "ren_del"]
    /\ UNCHANGED <<left, files, nkeys, clock, mu, nsets, cloudvars, schemas>>

\* k.DeleteKey(oldName), and the return.
RenameKeyDeleteOldName(p) ==
    /\ th[p].pc = "ren_del"
    /\ LET d == RenameKeySteps(ring, th[p].key, th[p].value, th[p].ver, 2)
       IN /\ ring' = d.ring
          /\ th' = [th EXCEPT ![p] = Ret(@, d.err)]
    /\ UNCHANGED <<left, files, nkeys, clock, mu, nsets, cloudvars, schemas>>

\* The process stops inside RenameKey; the keyring stays as it is.  The
\* record of the call is kept.
RenameKeyCrash(p) ==
    /\ th[p].pc \in {"ren_set", "ren_del"}
    /\ th' = [th EXCEPT ![p].pc = "crashed"]
    /\ UNCHANGED <<left, shared, cloudvars, schemas>>

\* The process is started again: keychain.New() touches no key.
KcNew(p) ==
    /\ th[p].pc = "crashed"
    /\ th' = [th EXCEPT ![p].pc = "recovered"]
    /\ UNCHANGED <<left, shared, cloudvars, schemas>>

InitRename == Fresh /\ left = [p \in Threads |-> IF p = "t1" THEN MaxRenameCalls ELSE 0]

NextRename ==
    \E p \in Threads :
        \/ KcGenerateKey(p)
        \/ KcDeleteKey(p)
        \/ KcSet(p)
        \/ CallRenameKey(p)
        \/ RenameKeySet(p)
        \/ RenameKeyDeleteOldName(p)
        \/ RenameKeyCrash(p)
        \/ KcNew(p)

SpecRename == InitRename /\ [][NextRename]_vars

---------------------------------------------------------------------------
(* C34  RenameKey.  From the moment RenameKey(old, new) has read the key   *)
(* bytes of old, at each of its steps, after a stop at any step and after  *)
(* its return, the bytes are stored under old or under new; and when it    *)
(* returns an error because old is absent, the keychain is as it was.      *)
C34_RenameKeepsKey ==
    \A p \in Threads :
       th[p].op = "RenameKey" =>
          /\ (th[p].pc \in {"ren_set", "ren_del", "crashed", "recovered"}
                \/ (th[p].pc = "ret" /\ th[p].res = "")) =>
                \/ ring[th[p].key] = Some(th[p].ver)
                \/ ring[th[p].value] = Some(th[p].ver)
          /\ (th[p].pc = "ret" /\ Before(p).ring[th[p].key] = None) =>
                /\ th[p].res # ""
                /\ ring = Before(p).ring

---------------------------------------------------------------------------
(* Writes and deletes on one provider: the first thread calls SetSecret,   *)
(* the second DeleteSecret, which can fall between the steps of a          *)
(* SetSecret.  nsets[k] counts the successful SetSecret calls on k since   *)
(* k was last absent.                                                      *)

MaxDeleteCalls == 3

\* SetSecret(ctx, key, value, metadata) up to the return of its GetSecret;
\* SetSecretBuild and SetSecretWrite are its other steps.  ver keeps
\* nsets[key] as it was when the call started.
DelSetSecret(p) ==
    /\ p = "t1"
    /\ Free(p)
    /\ Start(p)
    /\ mu = ""
    /\ \E k \in Keys, v \in {"v1", "v2"} :
          th' = [th EXCEPT ![p] = AfterGet(Call("SetSecret", "set_get", k, v, NilMap, nsets[k]))]
    /\ UNCHANGED <<shared, cloudvars, schemas>>

\* DeleteSecret(ctx, key)
DelDeleteSecret(p) ==
    /\ p = "t2"
    /\ Free(p)
    /\ Start(p)
    /\ mu = ""
    /\ \E k \in Keys :
          LET r == DeleteSecretFs(files, k)
          IN /\ files' = r.fs
             /\ nsets' = IF r.err = "" THEN [nsets EXCEPT ![k] = 0] ELSE nsets
             /\ th' = [th EXCEPT ![p] =
                         Ret(Call("DeleteSecret", "tree", k, "", NilMap, 0), r.err)]
    /\ UNCHANGED <<ring, nkeys, clock, mu, cloudvars, schemas>>

InitDelete ==
    /\ files = [p \in TreePaths |-> IF p = "." THEN Some(DirEntry) ELSE None]
    /\ ring = [n \in KeyNames |-> IF n = "master" THEN Some(1) ELSE None]
    /\ nkeys = 1
    /\ clock = 0
    /\ mu = ""
    /\ th = [p \in Threads |-> Idle]
    /\ nsets = [k \in Keys |-> 0]
    /\ backend = "local"
    /\ remote = NoRemote
    /\ supplied = [k \in Keys |-> None]
    /\ schemas = NoSchemas
    /\ backup = NoBackup
    /\ target = NoTarget
    /\ left = [p \in Threads |-> IF p = "t1" THEN MaxDeleteCalls ELSE 1]

NextDelete ==
    \E p \in Threads :
        \/ DelSetSecret(p)
        \/ SetSecretBuild(p)
        \/ SetSecretWrite(p)
        \/ DelDeleteSecret(p)

SpecDelete == InitDelete /\ [][NextDelete]_vars

---------------------------------------------------------------------------
(* C35  Delete discards the history.  When DeleteSecret(k) has succeeded   *)
(* on a stored key and a SetSecret(k) that started after it, the one       *)
(* write of k since, has succeeded, the record of k has version 1, no      *)
(* previous version and the createdAt of that SetSecret's clock reading,   *)
(* ListSecretVersions(k) is <<1>>, and GetSecretVersion(k, v) returns that *)
(* record for v = 1 and "version not found" for every other v.             *)
C35_DeleteDiscardsHistory ==
    \A p, q \in Threads :
       (/\ Returned(q, "DeleteSecret") /\ th[q].res = ""
        /\ Returned(p, "SetSecret") /\ th[p].res = ""
        /\ th[p].key = th[q].key
        /\ th[p].ver = 0
        /\ nsets[th[p].key] = 1)
       => LET k == th[p].key
              g == GetSecret(files, ring, k)
          IN /\ g.err = ""
             /\ g.secret[1].Version = 1
             /\ g.secret[1].PrevVersion = None
             /\ g.secret[1].Created.wall = th[p].now1
             /\ g.secret[1].Value = th[p].value
             /\ ListSecretVersions(files, ring, k).versions = <<1>>
             /\ \A v \in VersionArgs :
                   GetSecretVersion(files, ring, k, v) =
                      IF v = 1 THEN g ELSE [err |-> "version not found", secret |-> None]

\* The deleted record had two versions, created at an earlier reading of
\* the clock, and another value.
C35_Witness ==
    /\ Returned("t2", "DeleteSecret") /\ th["t2"].res = ""
    /\ Returned("t1", "SetSecret") /\ th["t1"].res = ""
    /\ th["t1"].key = th["t2"].key
    /\ th["t1"].ver = 0
    /\ nsets[th["t1"].key] = 1
    /\ LET g0 == GetSecret(Before("t2").files, Before("t2").ring, th["t2"].key)
       IN /\ g0.err = ""
          /\ g0.secret[1].Version = 2
          /\ g0.secret[1].Created.wall < th["t1"].now1
          /\ g0.secret[1].Value # th["t1"].value

---------------------------------------------------------------------------
(* Two constructions over one base directory and one keyring (two          *)
(* goroutines or two processes: each LocalProvider has its own mutex), on  *)
(* a machine where no key named master exists yet.  The first thread then  *)
(* calls SetSecret on its provider.                                        *)

MaxNewCalls == 2

\* New up to initializeMasterKey's KeyExists("master"): the directories are
\* made, the answer is kept in ver (1: exists).
NewKeyExists(p) ==
    /\ th[p].pc = "idle"
    /\ Start(p)
    /\ files' = MkdirAll(files, ".").fs
    /\ th' = [th EXCEPT ![p] =
                Call("New", "new_generate", "", "", NilMap,
                     IF KeyExists(ring, "master") THEN 1 ELSE 0)]
    /\ UNCHANGED <<ring, nkeys, clock, mu, nsets, cloudvars, schemas>>

\* SetSecret on the provider the first thread has constructed, up to the
\* return of its GetSecret; SetSecretBuild and SetSecretWrite are its other
\* steps.
NewSetSecret(p) ==
    /\ p = "t1"
    /\ th[p].pc = "ret"
    /\ SetSecretOf(p, Keys, {"v1"}, {NilMap})

InitNew ==
    /\ files = [p \in TreePaths |-> None]
    /\ ring = [n \in KeyNames |-> None]
    /\ nkeys = 0
    /\ clock = 0
    /\ mu = ""
    /\ th = [p \in Threads |-> Idle]
    /\ nsets = [k \in Keys |-> 0]
    /\ backend = "local"
    /\ remote = NoRemote
    /\ supplied = [k \in Keys |-> None]
    /\ schemas = NoSchemas
    /\ backup = NoBackup
    /\ target = NoTarget
    /\ left = [p \in Threads |-> IF p = "t1" THEN MaxNewCalls + 1 ELSE 1]

NextNew ==
    \E p \in Threads :
        \/ NewKeyExists(p)
        \/ NewGenerateKey(p)
        \/ NewSetSecret(p)
        \/ SetSecretBuild(p)
        \/ SetSecretWrite(p)

SpecNew == InitNew /\ [][NextNew]_vars

---------------------------------------------------------------------------
(* C36  Construction keeps the master key.  For every interleaving of two  *)
(* constructions and the SetSecret calls on the provider constructed       *)
(* first, every secret file that was written can be decrypted under the    *)
(* key named master.                                                       *)
C36_ConstructionKeepsMaster ==
    \A path \in StoredPaths(files) :
       Decrypt(ring, "master", files[path][1]).err = ""

---------------------------------------------------------------------------
(* Backup and Restore of the plain provider, local.go lines 226-308, and   *)
(* the lock of its SetSecret, lines 83-85.                                 *)

MaxRestoreCalls == 3

\* What ioutil.ReadDir returns for the backup directory: the names present,
\* sorted by file name.
BackupDirOrder == <<"a.json", "b.json", "notes.txt">>

RECURSIVE ReadDirFrom(_, _)
ReadDirFrom(dir, i) ==
    IF i > Len(BackupDirOrder) THEN <<>>
    ELSE IF dir[BackupDirOrder[i]] = None THEN ReadDirFrom(dir, i + 1)
    ELSE <<BackupDirOrder[i]>> \o ReadDirFrom(dir, i + 1)

ReadDir(dir) == ReadDirFrom(dir, 1)

\* filepath.Ext(file.Name()) == ".json"
IsJsonName(n) == n \in JsonNames

\* A file that json.Unmarshal rejects.
NotJson == [kind |-> "text"]

\* filepath.Join(p.backupDir, secret.Name+".json")
backupPath(name) == IF name = "a" THEN "a.json" ELSE "b.json"

\* The loop of Backup: json.MarshalIndent of each listed secret, written to
\* the backup directory under its name.
RECURSIVE BackupWrite(_, _, _)
BackupWrite(dir, secrets, i) ==
    IF i > Len(secrets) THEN dir
    ELSE BackupWrite([dir EXCEPT ![backupPath(secrets[i].Name)] =
                                     Some(PlainMarshal(secrets[i]))],
                     secrets, i + 1)

\* p.mu is a sync.RWMutex.  mu names the thread that holds it for writing.
\* A thread holds it for reading from the RLock of Backup, line 237, to the
\* return of Backup.
Readers == {q \in Threads : th[q].pc = "backup_list"}

\* Lock() has been called and waits for the readers to leave.
WaitPcs == {"setdir_wait", "pset_wait", "restore_wait"}

\* The next statement is p.mu.Lock().
LockPcs == {"setdir_lock", "pset_lock", "restore_lock"}

Pending == {q \in Threads : th[q].pc \in WaitPcs}

WaitPc(pc) ==
    IF pc = "setdir_lock" THEN "setdir_wait"
    ELSE IF pc = "pset_lock" THEN "pset_wait"
    ELSE "restore_wait"

\* RLock() returns: no writer holds the lock and none waits for it.  A
\* reader that comes after a waiting writer waits behind it, whether or not
\* the caller already holds the lock for reading.
CanRLock == mu = "" /\ Pending = {}

\* Lock() returns to p: no thread holds the lock, p itself included
\* (sync.RWMutex is not reentrant), and no other writer is ahead of p.
CanLock(p) == mu = "" /\ Readers = {} /\ Pending \subseteq {p}

\* Lock() is called while readers hold the lock: the caller announces
\* itself and waits for them to leave.
LockWait(p) ==
    /\ th[p].pc \in LockPcs
    /\ mu = ""
    /\ Pending = {}
    /\ Readers # {}
    /\ th' = [th EXCEPT ![p].pc = WaitPc(@)]
    /\ UNCHANGED <<left, shared, cloudvars, schemas>>

\* A caller enters SetBackupDir(dir); the next statement is p.mu.Lock().
CallSetBackupDir(p) ==
    /\ Free(p)
    /\ Start(p)
    /\ \E dir \in {"", "backups"} :
          th' = [th EXCEPT ![p] = Call("SetBackupDir", "setdir_lock", dir, "", NilMap, 0)]
    /\ UNCHANGED <<shared, cloudvars, schemas>>

\* SetBackupDir from p.mu.Lock() to its return, lines 228-232.
SetBackupDirLocked(p) ==
    /\ th[p].pc \in {"setdir_lock", "setdir_wait"}
    /\ CanLock(p)
    /\ backup' = [backup EXCEPT !.dir = th[p].key]
    /\ th' = [th EXCEPT ![p] = Ret(@, "")]
    /\ UNCHANGED <<files, ring, nkeys, clock, mu, left, nsets, backend, remote,
                   supplied, schemas, target>>

\* Backup, lines 237-242: p.mu.RLock() and the backupDir check.  With a
\* directory set the next statement is p.ListSecrets(ctx), line 245, and the
\* read lock stays held.
CallBackup(p) ==
    /\ Free(p)
    /\ Start(p)
    /\ CanRLock
    /\ LET c == Call("Backup", "backup_list", "", "", NilMap, 0)
       IN th' = [th EXCEPT ![p] =
                    IF backup.dir = "" THEN Ret(c, "backup directory not set") ELSE c]
    /\ UNCHANGED <<shared, cloudvars, schemas>>

\* Backup, lines 245-268: ListSecrets, which takes p.mu.RLock() again at
\* line 146, the loop that writes the exports, and the deferred RUnlock.
BackupListSecrets(p) ==
    /\ th[p].pc = "backup_list"
    /\ CanRLock
    /\ LET l == PlainListSecrets(files)
       IN IF l.err # ""
          THEN /\ th' = [th EXCEPT ![p] = Ret(@, "failed to list secrets")]
               /\ UNCHANGED backup
          ELSE /\ backup' = [backup EXCEPT !.files = BackupWrite(@, l.secrets, 1)]
               /\ th' = [th EXCEPT ![p] = Ret(@, "")]
    /\ UNCHANGED <<files, ring, nkeys, clock, mu, left, nsets, backend, remote,
                   supplied, schemas, target>>

\* A caller enters SetSecret(ctx, &providers.Secret{Name, Value}); the next
\* statement is p.mu.Lock().
CallPlainSetSecret(p) ==
    /\ Free(p)
    /\ Start(p)
    /\ \E name \in Keys, v \in {"", "v1"} :
          th' = [th EXCEPT ![p] =
                    [Call("PlainSetSecret", "pset_lock", name, v, NilMap, 0)
                        EXCEPT !.sdata = <<PlainLiteral(name, v)>>]]
    /\ UNCHANGED <<shared, cloudvars, schemas>>

\* SetSecret from p.mu.Lock() to its return, lines 83-126: the lock is taken
\* when no thread holds it, the caller itself included, and released by the
\* deferred Unlock.  The secret has no schema.  The caller is the program or
\* the loop of Restore, line 302.
PlainSetSecretLocked(p) ==
    /\ th[p].pc \in {"pset_lock", "pset_wait"}
    /\ CanLock(p)
    /\ \E t \in Later(clock) :
          LET s == th[p].sdata[1]
              err == PlainValidate(s)
              serr == IF err # "" THEN "invalid secret" ELSE ""
          IN /\ IF err # ""
                THEN UNCHANGED <<files, clock>>
                ELSE /\ files' = [files EXCEPT ![plainSecretPath(s.Name)] =
                                        Some(PlainMarshal(PlainStamp(s, t)))]
                     /\ clock' = t
             /\ IF th[p].op # "Restore"
                THEN th' = [th EXCEPT ![p] = Ret(@, serr)]
                ELSE IF serr # ""
                THEN th' = [th EXCEPT ![p] = Ret(@, "failed to restore secret")]
                ELSE th' = [th EXCEPT ![p].pc = "restore_loop",
                                      ![p].keys = Tail(@)]
    /\ mu' = ""
    /\ UNCHANGED <<ring, nkeys, left, nsets, cloudvars, schemas>>

\* LocalProvider.GetSecret, under p.mu.RLock().
CallPlainGetSecret(p) ==
    /\ Free(p)
    /\ Start(p)
    /\ CanRLock
    /\ \E name \in Keys :
          LET c == Call("PlainGetSecret", "pget", name, "", NilMap, 0)
              blob == files[plainSecretPath(name)]
          IN IF blob = None
             THEN th' = [th EXCEPT ![p] = Ret(c, "secret not found")]
             ELSE IF PlainUnmarshal(blob[1]).err # ""
             THEN th' = [th EXCEPT ![p] = Ret(c, "failed to unmarshal secret")]
             ELSE th' = [th EXCEPT ![p] = [Ret(c, "") EXCEPT !.out = blob]]
    /\ UNCHANGED <<shared, cloudvars, schemas>>

\* A caller enters Restore(ctx); the next statement is p.mu.Lock().
CallRestore(p) ==
    /\ Free(p)
    /\ Start(p)
    /\ th' = [th EXCEPT ![p] = Call("Restore", "restore_lock", "", "", NilMap, 0)]
    /\ UNCHANGED <<shared, cloudvars, schemas>>

\* Restore, lines 273-274: p.mu.Lock(), released by the deferred Unlock when
\* Restore returns.
RestoreLocked(p) ==
    /\ th[p].pc \in {"restore_lock", "restore_wait"}
    /\ CanLock(p)
    /\ mu' = p
    /\ th' = [th EXCEPT ![p].pc = "restore_dir"]
    /\ UNCHANGED <<files, ring, nkeys, clock, left, nsets, cloudvars, schemas>>

\* Restore, lines 275-283: the backupDir check and ioutil.ReadDir.
RestoreReadDir(p) ==
    /\ th[p].pc = "restore_dir"
    /\ IF backup.dir = ""
       THEN /\ th' = [th EXCEPT ![p] = Ret(@, "backup directory not set")]
            /\ mu' = ""
       ELSE /\ th' = [th EXCEPT ![p].pc = "restore_loop",
                                ![p].keys = ReadDir(backup.files)]
            /\ UNCHANGED mu
    /\ UNCHANGED <<files, ring, nkeys, clock, left, nsets, cloudvars, schemas>>

\* Restore, lines 286-305: one turn of the loop over the directory, up to the
\* call of p.SetSecret, or the return after the last file.
RestoreLoop(p) ==
    /\ th[p].pc = "restore_loop"
    /\ IF th[p].keys = <<>>
       THEN /\ th' = [th EXCEPT ![p] = Ret(@, "")]
            /\ mu' = ""
       ELSE LET name == Head(th[p].keys)
                u == PlainUnmarshal(backup.files[name][1])
            IN IF ~IsJsonName(name)
               THEN /\ th' = [th EXCEPT ![p].keys = Tail(@)]
                    /\ UNCHANGED mu
               ELSE IF u.err # ""
               THEN /\ th' = [th EXCEPT ![p] = Ret(@, "failed to unmarshal backup file")]
                    /\ mu' = ""
               ELSE /\ th' = [th EXCEPT ![p].pc = "pset_lock",
                                        ![p].sdata = <<u.secret[1]>>]
                    /\ UNCHANGED mu
    /\ UNCHANGED <<files, ring, nkeys, clock, left, nsets, cloudvars, schemas>>

\* A provider after New and Initialize, with a backup directory that holds
\* nothing, a file of another kind, or a damaged export.
BackupDirs ==
    {NoBackup.files,
     [NoBackup.files EXCEPT !["notes.txt"] = Some(NotJson)],
     [NoBackup.files EXCEPT !["a.json"] = Some(NotJson)]}

InitRestore ==
    /\ files = [p \in Paths |-> None]
    /\ ring = [n \in KeyNames |-> IF n = "master" THEN Some(1) ELSE None]
    /\ nkeys = 1
    /\ clock = 0
    /\ mu = ""
    /\ th = [p \in Threads |-> Idle]
    /\ nsets = [k \in Keys |-> 0]
    /\ backend = "local"
    /\ remote = NoRemote
    /\ supplied = [k \in Keys |-> None]
    /\ schemas = NoSchemas
    /\ backup \in {[dir |-> "", files |-> d] : d \in BackupDirs}
    /\ target = NoTarget
    /\ left = [p \in Threads |-> IF p = "t1" THEN MaxRestoreCalls + 1 ELSE 1]

NextRestore ==
    \E p \in Threads :
        \/ CallSetBackupDir(p)
        \/ SetBackupDirLocked(p)
        \/ CallBackup(p)
        \/ BackupListSecrets(p)
        \/ CallPlainSetSecret(p)
        \/ LockWait(p)
        \/ PlainSetSecretLocked(p)
        \/ CallPlainGetSecret(p)
        \/ CallRestore(p)
        \/ RestoreLocked(p)
        \/ RestoreReadDir(p)
        \/ RestoreLoop(p)

\* A call that has started goes on: the Go scheduler runs every goroutine
\* that can take a step.  Nothing obliges a caller to start a call.
RestoreStep(p) ==
    \/ LockWait(p)
    \/ SetBackupDirLocked(p)
    \/ BackupListSecrets(p)
    \/ PlainSetSecretLocked(p)
    \/ RestoreLocked(p)
    \/ RestoreReadDir(p)
    \/ RestoreLoop(p)

SpecRestore ==
    InitRestore /\ [][NextRestore]_vars /\ \A p \in Threads : WF_vars(RestoreStep(p))

---------------------------------------------------------------------------
(* C37  Restore terminates.  With a backup directory set that contains at  *)
(* least one secret JSON file, a Restore that has started eventually       *)
(* returns, with success or with an error, and no longer holds the         *)
(* provider lock, so that later GetSecret and SetSecret calls can proceed. *)

\* The backup directory is set and holds a secret's JSON export.
HasSecretExport ==
    /\ backup.dir # ""
    /\ \E n \in JsonNames :
          /\ backup.files[n] # None
          /\ PlainUnmarshal(backup.files[n][1]).err = ""

RestoreRunning(p) ==
    th[p].op = "Restore" /\ th[p].pc = "restore_dir" /\ HasSecretExport

C37_RestoreTerminates ==
    \A p \in Threads : RestoreRunning(p) ~> (Returned(p, "Restore") /\ mu # p)

\* Restore waits in SetSecret for the lock it holds itself.
RestoreWaitsForItself ==
    \E p \in Threads : th[p].op = "Restore" /\ th[p].pc = "pset_lock" /\ mu = p

---------------------------------------------------------------------------
(* CleanupInvalidSecrets beside SetSecret, sharing.go lines 506-529 and    *)
(* 238-296.  Neither call holds the lock from its reading to its writing:  *)
(* the scan reads each key under the read lock of GetSecret, the delete    *)
(* phase takes the lock once per key in DeleteSecret.                      *)

MaxScanCalls == 3

InitScan == Fresh /\ left = [p \in Threads |-> IF p = "t1" THEN MaxScanCalls + 1 ELSE 1]

\* Thread t1 writes, loses the master key, builds the provider again and
\* cleans up; thread t2 writes once at any moment.
NextScan ==
    \E p \in Threads :
        \/ ConcSetSecret(p)
        \/ SetSecretBuild(p)
        \/ SetSecretWrite(p)
        \/ CallDeleteKey(p)
        \/ CallNewKeyExists(p)
        \/ NewGenerateKey(p)
        \/ CallCleanupInvalidSecrets(p)
        \/ CleanupCheck(p)
        \/ CleanupDelete(p)
        \/ CleanupReturn(p)

SpecScan == InitScan /\ [][NextScan]_vars

---------------------------------------------------------------------------
(* C38  Cleanup deletes no valid secret.  For every interleaving with      *)
(* SetSecret calls, a file that a step of CleanupInvalidSecrets removes is *)
(* unreadable at the moment of the removal: a key the scan found           *)
(* unreadable and a SetSecret has rewritten since with a valid record is   *)
(* left in place.                                                          *)

\* A step of the delete phase removes the file of key k.
CleanupRemoves(k) ==
    /\ \E p \in Threads :
          /\ th[p].op = "CleanupInvalidSecrets"
          /\ th[p].invalid # <<>>
          /\ Head(th[p].invalid) = k
          /\ th'[p].invalid = Tail(th[p].invalid)
    /\ files[getSecretPath(k)] # None
    /\ files'[getSecretPath(k)] = None

C38_CleanupSparesRewritten ==
    [][\A k \in Keys : CleanupRemoves(k) => GetSecret(files, ring, k).err # ""]_vars

\* The scan of a running cleanup holds key k as invalid while GetSecret(k)
\* succeeds: a SetSecret has rewritten the key since the scan read it.
RewrittenSinceScan ==
    \E p \in Threads, k \in Keys :
       /\ th[p].op = "CleanupInvalidSecrets"
       /\ th[p].pc = "clean_check"
       /\ \E i \in 1 .. Len(th[p].invalid) : th[p].invalid[i] = k
       /\ GetSecret(files, ring, k).err = ""

---------------------------------------------------------------------------
(* ShareSecret, SyncSharedSecret and RevokeSharing, sharing.go lines       *)
(* 19-115, between two local providers: the source keeps its secrets in    *)
(* files, the target in target, and both seal under the keychain's master  *)
(* key.  One caller; each request names the two providers and a key.       *)

MaxShareCalls == 3

\* The key the requests name.
ShareKeys == {"a"}

\* A metadata text that time.Parse(time.RFC3339, ...) rejects; the texts
\* Format(time.RFC3339) writes are the wall readings 0, 1, ...
NotATime == -1

\* time.Parse(time.RFC3339, text)
ParseRFC3339(text) ==
    IF text = NotATime THEN [err |-> "cannot parse", t |-> UnmarshalTime(0)]
    ELSE [err |-> "", t |-> UnmarshalTime(text)]

\* t.After(u)
After(t, u) == t.wall > u.wall

\* The expiry check of ShareSecret, lines 27-35; now is the reading of
\* time.Now() it makes.
Expired(secret, now) ==
    /\ ~secret.Metadata.nil
    /\ MapHas(secret.Metadata, "expires_at")
    /\ LET e == ParseRFC3339(MapGet(secret.Metadata, "expires_at"))
       IN e.err = "" /\ After(Now(now), e.t)

\* A check that takes any shared_from entry, the empty one too.
WasSharedByEntry(secret) == MapHas(secret.Metadata, "shared_from")

\* The check of SyncSharedSecret and RevokeSharing, lines 68 and 103, read
\* the other way round: Metadata is not nil and Metadata["shared_from"] is
\* not "".
WasShared(secret) ==
    ~secret.Metadata.nil /\ Index(secret.Metadata, "shared_from") # ""

\* metadata := make(map[string]string), filled from m when m is not nil.
CopyMap(m) == MkMap(m.kv)

\* The metadata ShareSecret builds, lines 38-50: at is the reading of the
\* clock for shared_at, exp is req.ExpiresAt, <<>> when nil.
ShareMetadata(md, key, exp, at) ==
    LET m1 == MapPut(MapPut(CopyMap(md), "shared_from", key),
                     "shared_at", FormatRFC3339(Now(at)))
    IN IF exp # None THEN MapPut(m1, "expires_at", FormatRFC3339(exp[1])) ELSE m1

\* req.TargetProvider.SetSecret(ctx, req.Key, value, metadata) and the error
\* the caller wraps around its failure.
TargetSetSecret(tgt, rg, key, value, meta, t1, t2, nonce, failure) ==
    LET w == SetSecretFs(tgt, rg, key, value, meta, t1, t2, nonce)
    IN [err |-> IF w.err # "" THEN failure ELSE "", target |-> w.fs, clock |-> Some(t2)]

\* ShareSecret(ctx, req): now, at, t1 and t2 are the readings of the clock in
\* the expiry check, for shared_at and inside the target's SetSecret.
ShareSecret(src, tgt, rg, key, exp, now, at, t1, t2, nonce) ==
    LET g == GetSecret(src, rg, key)
    IN IF g.err # ""
       THEN [err |-> "failed to get secret from source", target |-> tgt, clock |-> None]
       ELSE LET secret == g.secret[1]
            IN IF Expired(secret, now)
               THEN [err |-> "secret has expired", target |-> tgt, clock |-> Some(now)]
               ELSE TargetSetSecret(tgt, rg, key, secret.Value,
                                    ShareMetadata(secret.Metadata, key, exp, at),
                                    t1, t2, nonce, "failed to set secret in target")

\* The metadata SyncSharedSecret builds, lines 80-84.
SyncMetadata(md, at) == MapPut(CopyMap(md), "synced_at", FormatRFC3339(Now(at)))

\* SyncSharedSecret(ctx, req)
SyncSharedSecret(src, tgt, rg, key, at, t1, t2, nonce) ==
    LET gt == GetSecret(tgt, rg, key)
        gs == GetSecret(src, rg, key)
    IN IF gt.err # ""
       THEN [err |-> "failed to get secret from target", target |-> tgt, clock |-> None]
       ELSE IF ~WasShared(gt.secret[1])
       THEN [err |-> "secret was not previously shared", target |-> tgt, clock |-> None]
       ELSE IF gs.err # ""
       THEN [err |-> "failed to get secret from source", target |-> tgt, clock |-> None]
       ELSE TargetSetSecret(tgt, rg, key, gs.secret[1].Value,
                            SyncMetadata(gt.secret[1].Metadata, at),
                            t1, t2, nonce, "failed to sync secret in target")

\* RevokeSharing(ctx, req)
RevokeSharing(tgt, rg, key) ==
    LET gt == GetSecret(tgt, rg, key)
        d == DeleteSecretFs(tgt, key)
    IN IF gt.err # ""
       THEN [err |-> "failed to get secret from target", target |-> tgt]
       ELSE IF ~WasShared(gt.secret[1])
       THEN [err |-> "secret was not previously shared", target |-> tgt]
       ELSE [err |-> IF d.err # "" THEN "failed to delete secret from target" ELSE "",
             target |-> d.fs]

SharedFromEmpty == MkMap({<<"shared_from", "">>})
ExpiresAt0 == MkMap({<<"expires_at", 0>>})
ExpiresNotATime == MkMap({<<"expires_at", NotATime>>})

\* The call starts: besides the source, the target and the clock as they
\* were at that moment.
ShareCall(op, key) ==
    [Call(op, "share", key, "", NilMap, 0) EXCEPT !.out = Some(target), !.now1 = clock]

\* SetSecret on the source provider.
ShareSetSource(p) ==
    TreeSetSecretOf(p, ShareKeys, {"v1", "v2"}, {NilMap, ExpiresAt0, ExpiresNotATime})

\* SetSecret on the target provider.
ShareSetTarget(p) ==
    /\ Free(p)
    /\ Start(p)
    /\ \E k \in ShareKeys, m \in {NilMap, SharedFromEmpty, SharedFromA}, n \in Nonces :
       \E t1 \in Later(clock) : \E t2 \in Later(t1) :
          LET r == SetSecretFs(target, ring, k, "v1", m, t1, t2, n)
          IN /\ target' = r.fs
             /\ clock' = t2
             /\ th' = [th EXCEPT ![p] = Ret(ShareCall("TargetSetSecret", k), r.err)]
    /\ UNCHANGED <<files, ring, nkeys, mu, nsets, backend, remote, supplied, schemas,
                   backup>>

CallShareSecret(p) ==
    /\ Free(p)
    /\ Start(p)
    /\ \E k \in ShareKeys, exp \in {None, Some(UnmarshalTime(0))}, n \in Nonces :
       \E now \in Later(clock) : \E at \in Later(now) :
       \E t1 \in Later(at) : \E t2 \in Later(t1) :
          \E r \in {ShareSecret(files, target, ring, k, exp, now, at, t1, t2, n)} :
             /\ r.clock = None => (now = clock /\ at = clock /\ t1 = clock /\ t2 = clock)
             /\ (r.clock # None /\ r.clock[1] = now) => (at = now /\ t1 = now /\ t2 = now)
             /\ target' = r.target
             /\ clock' = IF r.clock = None THEN clock ELSE r.clock[1]
             /\ th' = [th EXCEPT ![p] = Ret(ShareCall("ShareSecret", k), r.err)]
    /\ UNCHANGED <<files, ring, nkeys, mu, nsets, backend, remote, supplied, schemas,
                   backup>>

CallSyncSharedSecret(p) ==
    /\ Free(p)
    /\ Start(p)
    /\ \E k \in ShareKeys, n \in Nonces :
       \E at \in Later(clock) : \E t1 \in Later(at) : \E t2 \in Later(t1) :
          \E r \in {SyncSharedSecret(files, target, ring, k, at, t1, t2, n)} :
             /\ r.clock = None => (at = clock /\ t1 = clock /\ t2 = clock)
             /\ target' = r.target
             /\ clock' = IF r.clock = None THEN clock ELSE r.clock[1]
             /\ th' = [th EXCEPT ![p] = Ret(ShareCall("SyncSharedSecret", k), r.err)]
    /\ UNCHANGED <<files, ring, nkeys, mu, nsets, backend, remote, supplied, schemas,
                   backup>>

CallRevokeSharing(p) ==
    /\ Free(p)
    /\ Start(p)
    /\ \E k \in ShareKeys :
          LET r == RevokeSharing(target, ring, k)
          IN /\ target' = r.target
             /\ th' = [th EXCEPT ![p] = Ret(ShareCall("RevokeSharing", k), r.err)]
    /\ UNCHANGED <<files, ring, nkeys, clock, mu, nsets, backend, remote, supplied,
                   schemas, backup>>

\* Two providers after New, each with its empty secrets directory.
InitShare ==
    /\ files = [p \in TreePaths |-> IF p = "." THEN Some(DirEntry) ELSE None]
    /\ ring = [n \in KeyNames |-> IF n = "master" THEN Some(1) ELSE None]
    /\ nkeys = 1
    /\ clock = 0
    /\ mu = ""
    /\ th = [p \in Threads |-> Idle]
    /\ nsets = [k \in Keys |-> 0]
    /\ backend = "local"
    /\ remote = NoRemote
    /\ supplied = [k \in Keys |-> None]
    /\ schemas = NoSchemas
    /\ backup = NoBackup
    /\ target = [p \in TreePaths |-> IF p = "." THEN Some(DirEntry) ELSE None]
    /\ left = [p \in Threads |-> IF p = "t1" THEN MaxShareCalls ELSE 0]

NextShare ==
    \E p \in Threads :
        \/ ShareSetSource(p)
        \/ ShareSetTarget(p)
        \/ CallShareSecret(p)
        \/ CallSyncSharedSecret(p)
        \/ CallRevokeSharing(p)

SpecShare == InitShare /\ [][NextShare]_vars

---------------------------------------------------------------------------
(* C39  Sync and revoke act only on shared secrets.  SyncSharedSecret      *)
(* writes to the target and RevokeSharing deletes from the target only     *)
(* when the target's secret for the key has a non-empty shared_from entry; *)
(* otherwise each returns an error and leaves the source and the target    *)
(* as they were.  ShareSecret of a source secret whose expires_at lies in  *)
(* the past returns an error and writes nothing to the target.             *)

\* The target as it was when thread p's call started.
TargetBefore(p) == th[p].out[1]

\* The target held, at the call, a secret for the key with a non-empty
\* shared_from entry.
SharedBefore(p) ==
    LET g == GetSecret(TargetBefore(p), Before(p).ring, th[p].key)
    IN /\ g.err = ""
       /\ \E pr \in g.secret[1].Metadata.kv : pr[1] = "shared_from" /\ pr[2] # ""

\* The source held, at the call, a secret for the key whose expires_at is a
\* time before the clock's reading at the call.
ExpiredBefore(p) ==
    LET g == GetSecret(Before(p).files, Before(p).ring, th[p].key)
    IN /\ g.err = ""
       /\ \E pr \in g.secret[1].Metadata.kv :
             pr[1] = "expires_at" /\ pr[2] # NotATime /\ pr[2] < th[p].now1

C39_OnlySharedSecrets ==
    \A p \in Threads :
       /\ (Returned(p, "SyncSharedSecret") \/ Returned(p, "RevokeSharing")) =>
             /\ target # TargetBefore(p) => SharedBefore(p)
             /\ ~SharedBefore(p) =>
                   /\ th[p].res # ""
                   /\ files = Before(p).files
                   /\ target = TargetBefore(p)
       /\ (Returned(p, "ShareSecret") /\ ExpiredBefore(p)) =>
             /\ th[p].res # ""
             /\ target = TargetBefore(p)

\* RevokeSharing was refused for a target secret whose shared_from entry is
\* the empty string, and the secret is still there.
C39_Witness ==
    \E p \in Threads :
       /\ Returned(p, "RevokeSharing")
       /\ th[p].res = "secret was not previously shared"
       /\ LET g == GetSecret(target, ring, th[p].key)
          IN g.err = "" /\ <<"shared_from", "">> \in g.secret[1].Metadata.kv
====
